---- MODULE Spec2Model ----
(***************************************************************************)
(* Model of src/delivery_service_lists.py: the bounded unpack cursor, the  *)
(* Group / Identifiers / Version codecs and the TargetList that stores    *)
(* them in four files per printer.                                         *)
(*                                                                         *)
(* Byte strings are sequences of numbers 0..255.  Python objects that can  *)
(* be aliased (Identifiers objects, the list objects bound to the mutable  *)
(* default arguments) are kept on a small heap.                            *)
(***************************************************************************)
EXTENDS Integers, Sequences, FiniteSets, TLC

VARIABLES
    version,        \* TargetList.version.generation_nr
    group,          \* TargetList.group: short_columns, max_columns, columns
    groupDefault,   \* the one list object bound to Group.__init__'s columns = []
    ident,          \* heap of Identifiers objects: revision_nr and entries
    identDefault,   \* the one list object bound to Identifiers.__init__'s entries = []
    dstRef,         \* TargetList.__destinations_list (an object of the heap)
    sndRef,         \* TargetList.__senders_list (an object of the heap)
    verFile,        \* {base}/Version/D{mac}.ver
    addrFiles,      \* {base}/Address/D{mac}.{gen}.{grp,dst,snd}
    buf,            \* an UnpackBuf object of the caller: its data and its offset cnt
    pw,             \* a password of the caller, its encoding and the decoding of that
    di,             \* a DeliveryInput object: its __auth_cookie
    user,           \* a User object of the caller and its UserStatistics
    session,        \* a UserMaintSession object and the call it is in
    last            \* the last call: its name, how it ended, its argument

\* the objects of the printer adapters (security, delivery_input, accounts)
adapterVars == <<pw, di, user, session>>

\* the objects of the delivery service lists
listVars == <<version, group, groupDefault, ident, identDefault, dstRef, sndRef,
              verFile, addrFiles, buf>>

vars == <<version, group, groupDefault, ident, identDefault, dstRef, sndRef,
          verFile, addrFiles, buf, pw, di, user, session, last>>

(***************************************************************************)
(* Bounds of the model.                                                    *)
(***************************************************************************)
MaxGen == 2         \* Version.increase is not called beyond this generation
MaxRev == 2         \* load_config is not called beyond this revision
MaxEntries == 1     \* add_entry is not called on a list of this length
ExtraAdds == 2      \* add_column is not called beyond max_columns + ExtraAdds columns

(***************************************************************************)
(* struct: big-endian packing of fixed-width fields.                       *)
(***************************************************************************)
RECURSIVE Pow256(_)
Pow256(n) == IF n = 0 THEN 1 ELSE 256 * Pow256(n - 1)

\* struct.pack(">L" / ">H" / "B", v): w bytes, most significant first
BE(v, w) == [i \in 1..w |-> (v \div Pow256(w - i)) % 256]

\* struct.unpack(">L" / ">H", bytes)
RECURSIVE FromBE(_)
FromBE(b) == IF Len(b) = 0 THEN 0
             ELSE 256 * FromBE(SubSeq(b, 1, Len(b) - 1)) + b[Len(b)]

\* struct.pack("<n>x"): n null bytes
Zeros(n) == [i \in 1..n |-> 0]

\* struct.pack("<w>s", s): s cut to w bytes, or filled with null bytes
PackS(s, w) == [i \in 1..w |-> IF i <= Len(s) THEN s[i] ELSE 0]

Max(a, b) == IF a >= b THEN a ELSE b

(***************************************************************************)
(* UnpackBuf.unpack: a read of l bytes at offset cnt of data.              *)
(***************************************************************************)
UnpackAtEnd(data, cnt, l) ==
    IF cnt + l >= Len(data)
    THEN [ok |-> FALSE, cnt |-> cnt, bytes |-> <<>>,
          left |-> Len(data) - cnt, wanted |-> l]
    ELSE [ok |-> TRUE, cnt |-> cnt + l, bytes |-> SubSeq(data, cnt + 1, cnt + l),
          left |-> Len(data) - cnt, wanted |-> l]

UnpackPadded(data, cnt, l) ==
    [ok |-> TRUE, cnt |-> cnt + l,
     bytes |-> [i \in 1..l |-> IF cnt + i <= Len(data) THEN data[cnt + i] ELSE 0],
     left |-> Len(data) - cnt, wanted |-> l]

Unpack(data, cnt, l) ==
    IF cnt + l > Len(data)
    THEN [ok |-> FALSE, cnt |-> cnt, bytes |-> <<>>,
          left |-> Len(data) - cnt, wanted |-> l]
    ELSE [ok |-> TRUE, cnt |-> cnt + l, bytes |-> SubSeq(data, cnt + 1, cnt + l),
          left |-> Len(data) - cnt, wanted |-> l]

(***************************************************************************)
(* Group.                                                                  *)
(***************************************************************************)
\* Group._calc_max_columns
CalcMaxColumnsCompact(short) == 10

CalcMaxColumns(short) == IF short THEN 10 ELSE 5

\* self.__columns: the shared default list until load / load_config rebinds it
ColumnsOf(g, dflt) == IF g.shared THEN dflt ELSE g.own

\* Group.__init__(short_columns) with the default columns argument
GroupNew(short) ==
    [short_columns |-> short, max_columns |-> CalcMaxColumns(short),
     shared |-> TRUE, own |-> <<>>]

\* Group.add_column: the group, the default list and the error afterwards
AddColumnAtCap(g, dflt, col) ==
    IF Len(ColumnsOf(g, dflt)) >= g.max_columns
    THEN [g |-> g, dflt |-> dflt, err |-> "GroupException"]
    ELSE IF g.shared
         THEN [g |-> g, dflt |-> Append(dflt, col), err |-> "none"]
         ELSE [g |-> [g EXCEPT !.own = Append(@, col)], dflt |-> dflt, err |-> "none"]

AddColumn(g, dflt, col) ==
    IF Len(ColumnsOf(g, dflt)) > g.max_columns
    THEN [g |-> g, dflt |-> dflt, err |-> "GroupException"]
    ELSE IF g.shared
         THEN [g |-> g, dflt |-> Append(dflt, col), err |-> "none"]
         ELSE [g |-> [g EXCEPT !.own = Append(@, col)], dflt |-> dflt, err |-> "none"]

\* the width of a column's name field
NameWidth(short) == IF short THEN 4 ELSE 8

\* one column record of Group.dump: ">L 4s 16x" or ">L 8s 12x"
DumpColumn(short, col) ==
    BE(col.nr, 4) \o PackS(col.name, NameWidth(short)) \o Zeros(20 - NameWidth(short))

RECURSIVE DumpColumns(_, _)
DumpColumns(short, cols) ==
    IF cols = <<>> THEN <<>>
    ELSE DumpColumn(short, Head(cols)) \o DumpColumns(short, Tail(cols))

\* the 32 bytes Group.dump writes after the format flag
GroupMagic ==
    BE(2, 4) \o Zeros(4) \o Zeros(2) \o <<128>> \o <<1>> \o
    <<70, 114, 101, 113>> \o <<46>> \o Zeros(3) \o Zeros(12)

\* Group.dump
GroupDump(g, dflt) ==
    (IF g.short_columns THEN BE(11, 4) ELSE BE(6, 4)) \o GroupMagic \o
    DumpColumns(g.short_columns, ColumnsOf(g, dflt))

\* range(1, self.max_columns): the column numbers load and load_config go through
ColumnRangeToCap(max) == 1..max

ColumnRange(max) == 1..(max - 1)

\* the loop of Group.load: reads column i, i+1, ... of the range
RECURSIVE LoadColumns(_, _, _, _, _)
LoadColumns(g, dflt, data, cnt, i) ==
    IF i \notin ColumnRange(g.max_columns) THEN [g |-> g, dflt |-> dflt, err |-> "none"]
    ELSE LET u == Unpack(data, cnt, 24)
         IN  IF ~u.ok THEN [g |-> g, dflt |-> dflt, err |-> "UnpackBufException"]
             ELSE LET col == [nr |-> FromBE(SubSeq(u.bytes, 1, 4)),
                              name |-> SubSeq(u.bytes, 5, 4 + NameWidth(g.short_columns))]
                      a == AddColumn(g, dflt, col)
                  IN  IF a.err # "none" THEN a
                      ELSE LoadColumns(a.g, a.dflt, data, u.cnt, i + 1)

\* the format flags Group.load knows: 0xb and 0x6
KnownFormatAny(flag) == TRUE

KnownFormat(flag) == flag \in {11, 6}

\* Group.load
GroupLoad(g, dflt, data) ==
    LET u1 == Unpack(data, 0, 4)
    IN  IF ~u1.ok THEN [g |-> g, dflt |-> dflt, err |-> "UnpackBufException"]
        ELSE LET flag == FromBE(u1.bytes)
             IN  IF ~KnownFormat(flag)
                 THEN [g |-> g, dflt |-> dflt, err |-> "GroupException"]
                 ELSE LET g1 == [g EXCEPT !.short_columns = (flag = 11),
                                          !.max_columns = CalcMaxColumns(flag = 11)]
                          u2 == Unpack(data, u1.cnt, 32)
                      IN  IF ~u2.ok
                          THEN [g |-> g1, dflt |-> dflt, err |-> "UnpackBufException"]
                          ELSE LoadColumns([g1 EXCEPT !.shared = FALSE, !.own = <<>>],
                                           dflt, data, u2.cnt, 1)

(***************************************************************************)
(* ConfigParser input.  A configuration is a record of its three sections; *)
(* option values are byte strings.                                         *)
(***************************************************************************)
\* str.split(sep): the pieces of s between the separators
RECURSIVE SplitFrom(_, _, _)
SplitFrom(s, sep, cur) ==
    IF s = <<>> THEN <<cur>>
    ELSE IF Head(s) = sep THEN <<cur>> \o SplitFrom(Tail(s), sep, <<>>)
         ELSE SplitFrom(Tail(s), sep, Append(cur, Head(s)))

Split(s, sep) == SplitFrom(s, sep, <<>>)

IsDigits(s) == Len(s) > 0 /\ \A i \in 1..Len(s) : s[i] \in 48..57

\* int(s) of a string of decimal digits
RECURSIVE ParseInt(_)
ParseInt(s) == IF s = <<>> THEN 0
               ELSE 10 * ParseInt(SubSeq(s, 1, Len(s) - 1)) + (s[Len(s)] - 48)

TokTrue == <<116, 114, 117, 101>>           \* 'true'
TokFalse == <<102, 97, 108, 115, 101>>      \* 'false'

\* the loop of Group.load_config: col<nr>, col<nr+1>, ... of the range
RECURSIVE ConfigColumns(_, _, _, _)
ConfigColumns(g, dflt, cols, nr) ==
    IF nr \notin ColumnRange(g.max_columns) THEN [g |-> g, dflt |-> dflt, err |-> "none"]
    ELSE IF nr > Len(cols) THEN [g |-> g, dflt |-> dflt, err |-> "NoOptionError"]
         ELSE LET a == AddColumn(g, dflt, [nr |-> nr, name |-> cols[nr]])
              IN  IF a.err # "none" THEN a
                  ELSE ConfigColumns(a.g, a.dflt, cols, nr + 1)

\* Group.load_config; sec is the section: short_columns is "true", "false",
\* "invalid" (no boolean) or "missing", cols holds col1, col2, ...
GroupLoadConfig(g, dflt, sec) ==
    IF sec.short_columns = "missing" THEN [g |-> g, dflt |-> dflt, err |-> "NoOptionError"]
    ELSE IF sec.short_columns \notin {"true", "false"}
         THEN [g |-> g, dflt |-> dflt, err |-> "ValueError"]
         ELSE LET short == (sec.short_columns = "true")
                  g1 == [short_columns |-> short, max_columns |-> CalcMaxColumns(short),
                         shared |-> FALSE, own |-> <<>>]
              IN  ConfigColumns(g1, dflt, sec.cols, 1)

(***************************************************************************)
(* Identifiers.  An object is [revision_nr, shared, own]: its entries are  *)
(* the shared default list until load / load_config rebinds them.          *)
(***************************************************************************)
EntriesOf(io, dflt) == IF io.shared THEN dflt ELSE io.own

\* Identifiers.__init__(revision_nr) with the default entries argument
IdentNew(rev) == [revision_nr |-> rev, shared |-> TRUE, own |-> <<>>]

\* Identifiers.add_entry
AddEntry(io, dflt, e) ==
    IF io.shared THEN [io |-> io, dflt |-> Append(dflt, e)]
    ELSE [io |-> [io EXCEPT !.own = Append(@, e)], dflt |-> dflt]

\* one entry of Identifiers.dump: 36 bytes
DumpEntryPlainFlag(e) ==
    BE(e.id, 4) \o BE(0, 2) \o
    BE(e.group_nr, 2) \o Zeros(4) \o Zeros(7) \o <<2>> \o PackS(e.name, 16)

DumpEntry(e) ==
    BE(e.id, 4) \o (IF e.use_frequently THEN BE(32769, 2) ELSE BE(0, 2)) \o
    BE(e.group_nr, 2) \o Zeros(4) \o Zeros(7) \o <<2>> \o PackS(e.name, 16)

RECURSIVE DumpEntriesReversed(_)
DumpEntriesReversed(es) ==
    IF es = <<>> THEN <<>> ELSE DumpEntriesReversed(Tail(es)) \o DumpEntry(Head(es))

RECURSIVE DumpEntries(_)
DumpEntries(es) == IF es = <<>> THEN <<>> ELSE DumpEntry(Head(es)) \o DumpEntries(Tail(es))

\* Identifiers.dump
IdentDump(io, dflt) ==
    BE(Len(EntriesOf(io, dflt)), 4) \o Zeros(4) \o BE(io.revision_nr, 4) \o
    DumpEntries(EntriesOf(io, dflt))

\* the frequency flags Identifiers.load knows: 0x8001 and 0x0000
KnownFlagAny(flag) == TRUE

KnownFlag(flag) == flag \in {32769, 0}

\* the loop of Identifiers.load: n entries are still to be read; cnt is the
\* offset of the UnpackBuf, which load returns
RECURSIVE LoadEntries(_, _, _, _, _)
LoadEntries(io, dflt, data, cnt, n) ==
    IF n = 0 THEN [io |-> io, dflt |-> dflt, err |-> "none", cnt |-> cnt]
    ELSE LET u1 == Unpack(data, cnt, 6)
         IN  IF ~u1.ok THEN [io |-> io, dflt |-> dflt, err |-> "UnpackBufException",
                             cnt |-> u1.cnt]
             ELSE LET id == FromBE(SubSeq(u1.bytes, 1, 4))
                      flag == FromBE(SubSeq(u1.bytes, 5, 6))
                  IN  IF ~KnownFlag(flag)
                      THEN [io |-> io, dflt |-> dflt, err |-> "IdentifierException",
                            cnt |-> u1.cnt]
                      ELSE LET u2 == Unpack(data, u1.cnt, 30)
                           IN  IF ~u2.ok
                               THEN [io |-> io, dflt |-> dflt, err |-> "UnpackBufException",
                                     cnt |-> u2.cnt]
                               ELSE LET e == [id |-> id, use_frequently |-> (flag = 32769),
                                              group_nr |-> FromBE(SubSeq(u2.bytes, 1, 2)),
                                              name |-> SubSeq(u2.bytes, 15, 30)]
                                        a == AddEntry(io, dflt, e)
                                    IN  LoadEntries(a.io, a.dflt, data, u2.cnt, n - 1)

\* Identifiers.load
IdentLoadAtomic(io, dflt, data) ==
    LET u == Unpack(data, 0, 12)
    IN  IF ~u.ok THEN [io |-> io, dflt |-> dflt, err |-> "UnpackBufException", cnt |-> u.cnt]
        ELSE LET a == LoadEntries([revision_nr |-> FromBE(SubSeq(u.bytes, 9, 12)),
                                   shared |-> FALSE, own |-> <<>>],
                                  dflt, data, u.cnt, FromBE(SubSeq(u.bytes, 1, 4)))
             IN  IF a.err = "none" THEN a
                 ELSE [io |-> io, dflt |-> dflt, err |-> a.err, cnt |-> a.cnt]

IdentLoad(io, dflt, data) ==
    LET u == Unpack(data, 0, 12)
    IN  IF ~u.ok THEN [io |-> io, dflt |-> dflt, err |-> "UnpackBufException", cnt |-> u.cnt]
        ELSE LoadEntries([revision_nr |-> FromBE(SubSeq(u.bytes, 9, 12)),
                          shared |-> FALSE, own |-> <<>>],
                         dflt, data, u.cnt, FromBE(SubSeq(u.bytes, 1, 4)))

\* Identifiers.increase
IdentKeepRevision(io) == io

IdentIncrease(io) == [io EXCEPT !.revision_nr = @ + 1]

\* the flag Identifiers.load_config makes of a token that is 'true' or 'false'
ConfigFlagOfFalse(tok) == tok = TokFalse

ConfigFlag(tok) == tok = TokTrue

\* the loop of Identifiers.load_config over config_file.items(section)
RECURSIVE ConfigEntries(_, _, _)
ConfigEntries(io, dflt, items) ==
    IF items = <<>> THEN [io |-> io, dflt |-> dflt, err |-> "none"]
    ELSE LET it == Head(items)
             parts == Split(it.data, 44)
         IN  IF ~IsDigits(it.id) \/ Len(parts) # 3
             THEN [io |-> io, dflt |-> dflt, err |-> "ValueError"]
             ELSE IF parts[2] \notin {TokTrue, TokFalse}
                  THEN [io |-> io, dflt |-> dflt, err |-> "IdentifierException"]
                  ELSE IF ~IsDigits(parts[3])
                       THEN [io |-> io, dflt |-> dflt, err |-> "ValueError"]
                       ELSE LET e == [id |-> ParseInt(it.id),
                                      use_frequently |-> ConfigFlag(parts[2]),
                                      group_nr |-> ParseInt(parts[3]),
                                      name |-> parts[1]]
                                a == AddEntry(io, dflt, e)
                            IN  ConfigEntries(a.io, a.dflt, Tail(items))

\* Identifiers.load_config
IdentLoadConfig(io, dflt, items) ==
    ConfigEntries([IdentIncrease(io) EXCEPT !.shared = FALSE, !.own = <<>>], dflt, items)

(***************************************************************************)
(* Version.                                                                *)
(***************************************************************************)
\* Version.dump
VersionDump(gen) == BE(gen, 4)

\* Version.load: struct.unpack(">L", data) takes exactly four bytes
VersionLoadKeep(gen, data) ==
    IF Len(data) # 4 THEN [gen |-> gen, err |-> "struct.error"]
    ELSE [gen |-> gen, err |-> "none"]

VersionLoadUnchecked(gen, data) == [gen |-> FromBE(data), err |-> "none"]

VersionLoad(gen, data) ==
    IF Len(data) # 4 THEN [gen |-> gen, err |-> "struct.error"]
    ELSE [gen |-> FromBE(data), err |-> "none"]

(***************************************************************************)
(* Input values of the calls.                                              *)
(***************************************************************************)
NameName == <<78, 97, 109, 101>>                                  \* 'Name'
NameTel == <<84, 101, 108, 46>>                                   \* 'Tel.'
NameAb == <<97, 98>>                                              \* 'ab'
NameLocation == <<76, 111, 99, 97, 116, 105, 111, 110>>           \* 'Location'
NameFrontDesk == <<70, 114, 111, 110, 116, 32, 68, 101, 115, 107>> \* 'Front Desk'
NameSixteen == [i \in 1..16 |-> 64 + i]                           \* 'ABCDEFGHIJKLMNOP'

\* the names add_column is called with: the first column's, the later columns'
FirstNames == {NameName}
LaterNames == {NameTel}

\* the entries add_entry is called with
EntryFront == [id |-> 42, use_frequently |-> TRUE, group_nr |-> 1, name |-> NameFrontDesk]
EntrySixteen == [id |-> 65536 + 7, use_frequently |-> FALSE, group_nr |-> 258,
                 name |-> NameSixteen]
Entries == {EntryFront, EntrySixteen}

\* sections [ds_groups]
SecCompact == [short_columns |-> "true",
               cols |-> [i \in 1..9 |-> IF i = 2 THEN NameTel ELSE NameName]]
SecWide == [short_columns |-> "false", cols |-> [i \in 1..4 |-> NameLocation]]
SecFewCols == [short_columns |-> "true", cols |-> <<NameName, NameAb>>]
SecNoBool == [short_columns |-> "invalid", cols |-> <<>>]
GroupSections == {SecCompact, SecWide, SecFewCols, SecNoBool}

\* items of the sections [ds_destinations] and [ds_senders]: id, 'name,flag,group'
ItemFront == [id |-> <<52, 50>>,
              data |-> NameFrontDesk \o <<44>> \o TokTrue \o <<44>> \o <<49>>]
ItemBob == [id |-> <<55>>,
            data |-> <<66, 111, 98>> \o <<44>> \o TokFalse \o <<44>> \o <<50>>]
ItemSixteen == [id |-> <<55>>,
                data |-> NameSixteen \o <<44>> \o TokFalse \o <<44>> \o <<50>>]
ItemYes == [id |-> <<56>>,
            data |-> <<66, 111, 98>> \o <<44>> \o <<121, 101, 115>> \o <<44>> \o <<50>>]
\* 9 = 'Bob,true,x': the group number is no number
ItemBadGroup == [id |-> <<57>>,
                 data |-> <<66, 111, 98>> \o <<44>> \o TokTrue \o <<44>> \o <<120>>]
\* x = 'Bob,yes,2': the id is no number and the token is unknown
ItemBadId == [id |-> <<120>>,
              data |-> <<66, 111, 98>> \o <<44>> \o <<121, 101, 115>> \o <<44>> \o <<50>>]
\* 3 = 'Bob,true': two fields
ItemTwoFields == [id |-> <<51>>, data |-> <<66, 111, 98>> \o <<44>> \o TokTrue]

\* the configuration files load_config is called with
Configs ==
    { [groups |-> SecCompact, dst |-> <<ItemSixteen>>, snd |-> <<>>],
      [groups |-> SecNoBool, dst |-> <<ItemBob>>, snd |-> <<>>] }

(***************************************************************************)
(* aficio1075.security: the password encoding of the printer.  A password  *)
(* is a str, modelled as the sequence of its character codes (0..255);     *)
(* the base64 text is the sequence of its ASCII codes.                     *)
(***************************************************************************)
MIN_PW_LEN == 3
MAX_PW_LEN == 8

\* the requests of one call that are counted
MaxSent == 2

\* _encode_char: (val >> 2) | ((val & 3) << 6)
EncodeChar(val) == (val \div 4) + ((val % 4) * 64)

\* _decode_char: ((val << 2) | ((val & 0xC0) >> 6)) & 0xff
DecodeCharRight(val) == (val \div 4) + ((val % 4) * 64)

DecodeChar(val) == ((val * 4) + ((val % 256) \div 64)) % 256

\* _mangle_password(mstr, func), func given as its table over the characters
ManglePassword(mstr, func) == [i \in 1..Len(mstr) |-> func[mstr[i]]]

\* the character of the base64 alphabet for the 6-bit value v
B64Char(v) ==
    IF v < 26 THEN 65 + v
    ELSE IF v < 52 THEN 97 + (v - 26)
    ELSE IF v < 62 THEN 48 + (v - 52)
    ELSE IF v = 62 THEN 43 ELSE 47

\* the 6-bit value of a character of the base64 alphabet
B64Value(c) ==
    IF c >= 65 /\ c <= 90 THEN c - 65
    ELSE IF c >= 97 /\ c <= 122 THEN c - 97 + 26
    ELSE IF c >= 48 /\ c <= 57 THEN c - 48 + 52
    ELSE IF c = 43 THEN 62 ELSE 63

\* the padding character '='
B64Pad == 61

\* base64.b64encode: 3 bytes give 4 characters; the last group is padded
RECURSIVE B64Encode(_)
B64Encode(b) ==
    IF Len(b) = 0 THEN <<>>
    ELSE IF Len(b) = 1
    THEN <<B64Char(b[1] \div 4), B64Char((b[1] % 4) * 16), B64Pad, B64Pad>>
    ELSE IF Len(b) = 2
    THEN <<B64Char(b[1] \div 4), B64Char((b[1] % 4) * 16 + (b[2] \div 16)),
           B64Char((b[2] % 16) * 4), B64Pad>>
    ELSE <<B64Char(b[1] \div 4), B64Char((b[1] % 4) * 16 + (b[2] \div 16)),
           B64Char((b[2] % 16) * 4 + (b[3] \div 64)), B64Char(b[3] % 64)>>
         \o B64Encode(SubSeq(b, 4, Len(b)))

\* base64.b64decode of a text made by b64encode: 4 characters give 3 bytes,
\* fewer where the group ends with padding
RECURSIVE B64Decode(_)
B64Decode(t) ==
    IF Len(t) < 4 THEN <<>>
    ELSE LET v == [i \in 1..2 |-> B64Value(t[i])]
             b1 == v[1] * 4 + (v[2] \div 16)
         IN  IF t[3] = B64Pad THEN <<b1>>
             ELSE LET v3 == B64Value(t[3])
                      b2 == (v[2] % 16) * 16 + (v3 \div 4)
                  IN  IF t[4] = B64Pad THEN <<b1, b2>>
                      ELSE <<b1, b2, (v3 % 4) * 64 + B64Value(t[4])>>
                           \o B64Decode(SubSeq(t, 5, Len(t)))

\* encode_password(passwd): the error, the mangled password and the text
EncodePasswordOf(passwd) ==
    IF Len(passwd) < MIN_PW_LEN \/ Len(passwd) > MAX_PW_LEN
    THEN [err |-> "PasswordError", mangled |-> <<>>, text |-> <<>>]
    ELSE LET m == ManglePassword(passwd, [val \in 0..255 |-> EncodeChar(val)])
         IN  [err |-> "none", mangled |-> m, text |-> B64Encode(m)]

\* decode_password(data)
DecodePasswordOf(data) ==
    ManglePassword(B64Decode(data), [val \in 0..255 |-> DecodeChar(val)])

\* the characters of the passwords
PwChars == {0, 1, 3, 97, 192, 255}

\* a password of n characters that starts with c
Ramp(n, c) == [i \in 1..n |-> (c + 37 * (i - 1)) % 256]

\* the passwords: all of MIN_PW_LEN characters, and one for every length
\* from none to one more than MAX_PW_LEN and every first character
Passwords ==
    {<<a, b, c>> : a \in PwChars, b \in PwChars, c \in PwChars} \cup
    {Ramp(n, c) : n \in 0..(MAX_PW_LEN + 1), c \in PwChars}

\* a password the caller holds and has not encoded yet
PwGiven(passwd) ==
    [passwd |-> passwd, stage |-> "given", mangled |-> <<>>, text |-> <<>>, back |-> <<>>]

(***************************************************************************)
(* aficio1075.delivery_input: the DeliveryInput object.                    *)
(***************************************************************************)
\* self.__auth_cookie = None
NoTicket == "None"

\* DeliveryInput.__init__
DeliveryInputNew == [auth_cookie |-> NoTicket]

\* DeliveryInput._ticket_xml
TicketXml(d) ==
    IF d.auth_cookie = NoTicket
    THEN [err |-> "DeliveryInputException", ticket |-> ""]
    ELSE [err |-> "none", ticket |-> d.auth_cookie]

\* DeliveryInput.authenticate(passwd), the printer answering reply to the
\* request if one is sent: the object, the error and the requests sent
AuthenticateEarly(d, passwd, reply) ==
    IF EncodePasswordOf(passwd).err # "none"
    THEN [d |-> d, err |-> "PasswordError", sent |-> <<>>]
    ELSE IF reply.returnValue # "DIRC_OK"
         THEN [d |-> [d EXCEPT !.auth_cookie = reply.ticket],
               err |-> "DeliveryInputException", sent |-> <<"authenticate">>]
         ELSE [d |-> [d EXCEPT !.auth_cookie = reply.ticket], err |-> "none",
               sent |-> <<"authenticate">>]

Authenticate(d, passwd, reply) ==
    IF EncodePasswordOf(passwd).err # "none"
    THEN [d |-> d, err |-> "PasswordError", sent |-> <<>>]
    ELSE IF reply.returnValue # "DIRC_OK"
         THEN [d |-> d, err |-> "DeliveryInputException", sent |-> <<"authenticate">>]
         ELSE [d |-> [d EXCEPT !.auth_cookie = reply.ticket], err |-> "none",
               sent |-> <<"authenticate">>]

\* DeliveryInput._encoded_host(host): socket.gethostbyname raises for a name
\* that does not resolve
EncodedHost(host) ==
    IF host = "None" THEN [err |-> "none", addr |-> "0.0.0.0"]
    ELSE IF host = "unknown.example" THEN [err |-> "socket.gaierror", addr |-> ""]
    ELSE [err |-> "none", addr |-> host]

\* the end of set_delivery_service, get_delivery_service and synchronize:
\* the request is sent and the returnValue of the reply looked at
Checked(func, reply) ==
    [err |-> IF reply.returnValue # "DIRC_OK" THEN "DeliveryInputException" ELSE "none",
     sent |-> <<func>>]

\* DeliveryInput.set_delivery_service(host) and synchronize(host, nr): the
\* body is made of _ticket_xml() and then _encoded_host(host)
WithTicketAndHost(d, func, host, reply) ==
    IF TicketXml(d).err # "none" THEN [err |-> TicketXml(d).err, sent |-> <<>>]
    ELSE IF EncodedHost(host).err # "none"
         THEN [err |-> EncodedHost(host).err, sent |-> <<>>]
         ELSE Checked(func, reply)

\* DeliveryInput.get_delivery_service(): the body is made of _ticket_xml();
\* the address of the reply is turned into a host name ("None" is None),
\* socket.gethostbyaddr raises for an address without a name
GetDeliveryService(d, reply) ==
    IF TicketXml(d).err # "none"
    THEN [err |-> TicketXml(d).err, sent |-> <<>>, result |-> "None"]
    ELSE LET c == Checked("getDeliveryService", reply)
         IN  IF c.err # "none" THEN c @@ [result |-> "None"]
             ELSE IF reply.address = "0.0.0.0" THEN c @@ [result |-> "None"]
             ELSE IF reply.address = "10.0.0.9"
                  THEN [err |-> "socket.herror", sent |-> c.sent, result |-> "None"]
                  ELSE c @@ [result |-> "ds.example"]

(***************************************************************************)
(* aficio1075.accounts: User, UserStatistics and UserMaintSession.         *)
(***************************************************************************)
\* the counters of a UserStatistics
CounterNames == {"copy_a4", "copy_a3", "print_a4", "print_a3", "scan_a4", "scan_a3"}

\* User.stats = None
NoStats == [present |-> FALSE, modified |-> FALSE, counters |-> [c \in CounterNames |-> 0]]

\* UserStatistics.__init__
StatsNew(counters) == [present |-> TRUE, modified |-> TRUE, counters |-> counters]

\* the setter of a counter property
SetCounter(st, c, val) == [st EXCEPT !.modified = TRUE, !.counters[c] = val]

\* UserStatistics.set_zero: the six setters one after the other
RECURSIVE SetZeroOf(_, _)
SetZeroOf(st, names) ==
    IF names = {} THEN st
    ELSE LET c == CHOOSE x \in names : TRUE
         IN  SetZeroOf(SetCounter(st, c, 0), names \ {c})

SetZero(st) == SetZeroOf(st, CounterNames)

\* UserStatistics.from_xml
StatsFromXml(counters) == [StatsNew(counters) EXCEPT !.modified = FALSE]

\* User.__init__(user_code, name, restrict, stats): no _orig_user_code yet
UserNew(user_code, stats) ==
    [user_code |-> user_code, has_orig |-> FALSE, orig |-> 0, stats |-> stats]

\* User._set_user_code on a constructed object
SetUserCodeLatest(u, user_code) ==
    [u EXCEPT !.has_orig = TRUE, !.orig = u.user_code, !.user_code = user_code]

SetUserCode(u, user_code) ==
    IF ~u.has_orig
    THEN [u EXCEPT !.has_orig = TRUE, !.orig = u.user_code, !.user_code = user_code]
    ELSE [u EXCEPT !.user_code = user_code]

\* User._get_orig_user_code
OrigUserCode(u) == IF u.has_orig THEN u.orig ELSE u.user_code

\* User.notify_flushed
NotifyFlushed(u) ==
    LET v == IF u.has_orig THEN [u EXCEPT !.has_orig = FALSE, !.orig = 0] ELSE u
    IN  IF v.stats.present /\ v.stats.modified
        THEN [v EXCEPT !.stats.modified = FALSE] ELSE v

\* User.to_xml: the user code and the statistics element, if there is one
UserToXml(u) ==
    IF u.stats.present /\ u.stats.modified
    THEN [userCode |-> u.user_code, hasStats |-> TRUE, counters |-> u.stats.counters]
    ELSE [userCode |-> u.user_code, hasStats |-> FALSE, counters |-> NoStats.counters]

\* UserMaintSession.BUSY_CODE
BUSY_CODE == "systemBusy"

\* a node that find() does not find, and the text of such a node
NoNode == [name |-> "", isSucceeded |-> "None", errorCode |-> "None"]

\* operation_node.find(name): the child of that name
Find(doc, name) ==
    IF \E c \in doc.children : c.name = name
    THEN CHOOSE c \in doc.children : c.name = name
    ELSE NoNode

\* _get_operation_result(operation_node, oper_name); "None" is None
GetOperationResult(doc, oper_name) ==
    IF doc.tag # "operationResult" THEN "unknown failure"
    ELSE IF Find(doc, oper_name).isSucceeded = "true" THEN "None"
    ELSE LET result_node == IF Find(doc, oper_name) # NoNode THEN Find(doc, oper_name)
                            ELSE Find(doc, "serverError")
         IN  IF result_node = NoNode THEN "unknown failure"
             ELSE result_node.errorCode

\* the end of the loop of _perform_checked_operation
ReturnsAlways(retry_busy, error_code) == TRUE

Returns(retry_busy, error_code) == ~retry_busy \/ error_code # BUSY_CODE

\* the result element add_user and set_user_info look for
ResultName(op) == IF op = "add_user" THEN "addUserResult" ELSE "setUserInfoResult"

\* UserMaintSession.__init__(passwd, host, port, retry_busy); the object is
\* in no call
SessionNew(passwd, retry_busy) ==
    [passwd |-> passwd, retry_busy |-> retry_busy, pc |-> "idle", op |-> "",
     target |-> 0, body |-> UserToXml(UserNew(0, NoStats)), sent |-> 0]

(***************************************************************************)
(* State.                                                                  *)
(***************************************************************************)
IdObjs == 1..3
NoObject == [revision_nr |-> 0, shared |-> FALSE, own |-> <<>>]   \* a free slot of the heap
Gens == 1..MaxGen
Suffixes == {"grp", "dst", "snd"}
NoFile == [exists |-> FALSE, data |-> <<>>]
File(data) == [exists |-> TRUE, data |-> data]

\* UnpackBuf.__init__(data)
UnpackBufNew(data) == [data |-> data, cnt |-> 0]

Call(op, err, arg, n) == [op |-> op, err |-> err, arg |-> arg, n |-> n]

\* the entries of the stored lists and the columns of the layout
DstEntries == EntriesOf(ident[dstRef], identDefault)
SndEntries == EntriesOf(ident[sndRef], identDefault)
Columns == ColumnsOf(group, groupDefault)

\* the password of the sessions, of MIN_PW_LEN characters
SessionPassword == Ramp(MIN_PW_LEN, 97)

\* the user codes; 0 is the account 'other'
UserCodes == {0, 7, 8}

\* the adapter objects after their construction, the caller holding password p
InitAdapters(p) ==
    /\ pw = PwGiven(p)
    /\ di = [obj |-> DeliveryInputNew, granted |-> NoTicket]
    /\ user = UserNew(7, NoStats)
    /\ session = SessionNew(SessionPassword, FALSE)

\* TargetList.__init__
InitTargetList ==
    /\ version = 1
    /\ group = GroupNew(TRUE)
    /\ groupDefault = <<>>
    /\ ident = [o \in IdObjs |-> IF o \in {1, 2} THEN IdentNew(1) ELSE NoObject]
    /\ identDefault = <<>>
    /\ dstRef = 1
    /\ sndRef = 2
    /\ verFile = NoFile
    /\ addrFiles = [f \in Gens \X Suffixes |-> NoFile]
    /\ buf = UnpackBufNew(<<>>)
    /\ last = Call("TargetList", "none", "", 0)

Init == InitTargetList /\ InitAdapters(SessionPassword)

(***************************************************************************)
(* Calls on the TargetList.                                                *)
(***************************************************************************)
\* Identifiers(revision_nr = rev): the caller makes a new object in a free slot
NewIdentifiers(o, rev) ==
    /\ ident[o] = NoObject
    /\ \A p \in IdObjs : p < o => ident[p] # NoObject
    /\ ident' = [ident EXCEPT ![o] = IdentNew(rev)]
    /\ last' = Call("Identifiers", "none", "", 0)
    /\ UNCHANGED <<adapterVars, buf, version, group, groupDefault, identDefault, dstRef, sndRef,
                   verFile, addrFiles>>

\* The argument of a setter: the stored destinations list ("dst"), the stored
\* senders list ("snd"), or a new Identifiers(revision_nr = rev) ("new").
ArgKinds == {"dst", "snd", "new"}

\* the revision numbers of the new lists: the lowest, and one above every
\* revision load_config reaches
NewRevs == {1, MaxRev + 1}

ArgObject(kind, rev) ==
    CASE kind = "dst" -> ident[dstRef]
      [] kind = "snd" -> ident[sndRef]
      [] kind = "new" -> IdentNew(rev)

\* the slot of the argument; a new object takes the slot of the list it
\* replaces when nothing else refers to that list, and else the first free slot
ArgSlot(kind, replaced, other) ==
    CASE kind = "dst" -> dstRef
      [] kind = "snd" -> sndRef
      [] kind = "new" -> IF replaced # other THEN replaced
                         ELSE CHOOSE p \in IdObjs :
                                  /\ ident[p] = NoObject
                                  /\ \A q \in IdObjs : ident[q] = NoObject => p <= q

\* TargetList.set_dst: its parameters are named dself and st_list, its body
\* reads dst_list and self, so the first evaluation raises NameError
SetDst(kind, rev) ==
    /\ kind # "new" => rev = 1
    /\ last' = Call("set_dst", "NameError", "", ArgObject(kind, rev).revision_nr)
    /\ UNCHANGED <<adapterVars, buf, version, group, groupDefault, ident, identDefault, dstRef, sndRef,
                   verFile, addrFiles>>

\* the revision number TargetList.set_snd gives the incoming list
SetRevisionPlain(new, old) == new

SetRevision(new, old) == Max(new, old)

\* TargetList.set_snd; the caller keeps no reference to the list it replaces
SetSnd(kind, rev) ==
    /\ kind # "new" => rev = 1
    /\ LET o == ArgSlot(kind, sndRef, dstRef)
       IN  /\ ident' = [p \in IdObjs |->
                          IF p = o THEN [ArgObject(kind, rev) EXCEPT !.revision_nr =
                                             SetRevision(@, ident[sndRef].revision_nr)]
                          ELSE IF p = sndRef /\ p # dstRef THEN NoObject
                          ELSE ident[p]]
           /\ sndRef' = o
    /\ last' = Call("set_snd", "none", "", ArgObject(kind, rev).revision_nr)
    /\ UNCHANGED <<adapterVars, buf, version, group, groupDefault, identDefault, dstRef,
                   verFile, addrFiles>>

\* Identifiers.add_entry on object o
IdentAddEntry(o, e) ==
    /\ ident[o] # NoObject
    /\ Len(EntriesOf(ident[o], identDefault)) < MaxEntries
    /\ LET a == AddEntry(ident[o], identDefault, e)
       IN  /\ ident' = [ident EXCEPT ![o] = a.io]
           /\ identDefault' = a.dflt
    /\ last' = Call("add_entry", "none", "", o)
    /\ UNCHANGED <<adapterVars, buf, version, group, groupDefault, dstRef, sndRef, verFile, addrFiles>>

\* Version.increase
IncreaseTwice(gen) == gen + 2

Increase(gen) == gen + 1

\* version.increase(); last counts the calls made in a row (n) from the
\* generation number held before the first of them (start)
VersionIncrease ==
    /\ version < MaxGen
    /\ version' = Increase(version)
    /\ last' = Call("increase", "none", "", IF last.op = "increase" THEN last.n + 1 ELSE 1) @@
                 [start |-> IF last.op = "increase" THEN last.start ELSE version]
    /\ UNCHANGED <<adapterVars, buf, group, groupDefault, ident, identDefault, dstRef, sndRef,
                   verFile, addrFiles>>

\* TargetList.load_config: the objects and the error afterwards
TLLoadConfig(g, gd, id, idd, dref, sref, cfg) ==
    LET a == GroupLoadConfig(g, gd, cfg.groups)
    IN  IF a.err # "none"
        THEN [group |-> a.g, groupDefault |-> a.dflt, ident |-> id,
              identDefault |-> idd, err |-> a.err]
        ELSE LET d == IdentLoadConfig(id[dref], idd, cfg.dst)
                 id1 == [id EXCEPT ![dref] = d.io]
             IN  IF d.err # "none"
                 THEN [group |-> a.g, groupDefault |-> a.dflt, ident |-> id1,
                       identDefault |-> d.dflt, err |-> d.err]
                 ELSE LET c == IdentLoadConfig(id1[sref], d.dflt, cfg.snd)
                      IN  [group |-> a.g, groupDefault |-> a.dflt,
                           ident |-> [id1 EXCEPT ![sref] = c.io],
                           identDefault |-> c.dflt, err |-> c.err]

\* TargetList.load_config; the first of the two also sets the generation number
LoadConfigNewVersion(cfg) ==
    /\ ident[dstRef].revision_nr < MaxRev
    /\ ident[sndRef].revision_nr < MaxRev
    /\ LET r == TLLoadConfig(group, groupDefault, ident, identDefault, dstRef, sndRef, cfg)
       IN  /\ group' = r.group
           /\ groupDefault' = r.groupDefault
           /\ ident' = r.ident
           /\ identDefault' = r.identDefault
           /\ last' = Call("load_config", r.err, "", 0)
    /\ version' = 1
    /\ UNCHANGED <<adapterVars, buf, dstRef, sndRef, verFile, addrFiles>>

LoadConfig(cfg) ==
    /\ ident[dstRef].revision_nr < MaxRev
    /\ ident[sndRef].revision_nr < MaxRev
    /\ LET r == TLLoadConfig(group, groupDefault, ident, identDefault, dstRef, sndRef, cfg)
       IN  /\ group' = r.group
           /\ groupDefault' = r.groupDefault
           /\ ident' = r.ident
           /\ identDefault' = r.identDefault
           /\ last' = Call("load_config", r.err, "", 0)
    /\ UNCHANGED <<adapterVars, buf, version, dstRef, sndRef, verFile, addrFiles>>

\* the order in which TargetList.dump_path writes its four files
DumpOrderListsFirst == <<"ver", "dst", "snd", "grp">>

DumpOrderVersionLast == <<"grp", "dst", "snd", "ver">>

DumpOrder == <<"ver", "grp", "dst", "snd">>

\* the files written once dump_path has written k files
Written(k) == {DumpOrder[i] : i \in 1..k}

\* what dump_path writes to the Address file with suffix s
DumpOf(s) ==
    CASE s = "grp" -> GroupDump(group, groupDefault)
      [] s = "dst" -> IdentDump(ident[dstRef], identDefault)
      [] s = "snd" -> IdentDump(ident[sndRef], identDefault)

\* the generation number dump_path puts into the names of the Address files
DumpGeneration == version

\* the numbers of files a call of dump_path writes: all four, or only the
\* generation file when the open() of the layout file raises IOError
FilesWritten == {1, 4}

\* TargetList.dump_path.  k of the four files are written; with k < 4 the
\* open() of the next file raises IOError and ends the call.
DumpPath(k) ==
    /\ verFile' = IF "ver" \in Written(k) THEN File(VersionDump(version)) ELSE verFile
    /\ addrFiles' =
         [f \in Gens \X Suffixes |->
            IF f[1] # DumpGeneration THEN addrFiles[f]
            ELSE IF f[2] \in Written(k) THEN File(DumpOf(f[2])) ELSE addrFiles[f]]
    /\ last' = Call("dump_path", IF k = 4 THEN "none" ELSE "IOError", "", k)
    /\ UNCHANGED <<adapterVars, buf, version, group, groupDefault, ident, identDefault, dstRef, sndRef>>

\* the generation number load_path puts into the names of the Address files
\* it opens: self.version.generation_nr, evaluated after version.load_file
LoadGenerationHeld(held, read) == held

LoadGeneration(held, read) == read

\* TargetList.load_path: the objects and the error afterwards
TLLoadPath(ver, g, gd, id, idd, dref, sref, vf, af) ==
    LET keep == [version |-> ver, group |-> g, groupDefault |-> gd, ident |-> id,
                 identDefault |-> idd, err |-> "none"]
    IN  IF ~vf.exists THEN [keep EXCEPT !.err = "IOError"]
        ELSE LET v == VersionLoad(ver, vf.data)
                 s1 == [keep EXCEPT !.version = v.gen]
                 n == LoadGeneration(ver, v.gen)
             IN  IF v.err # "none" THEN [keep EXCEPT !.err = v.err]
                 ELSE IF ~af[<<n, "grp">>].exists THEN [s1 EXCEPT !.err = "IOError"]
                 ELSE LET a == GroupLoad(g, gd, af[<<n, "grp">>].data)
                          s2 == [s1 EXCEPT !.group = a.g, !.groupDefault = a.dflt]
                      IN  IF a.err # "none" THEN [s2 EXCEPT !.err = a.err]
                          ELSE IF ~af[<<n, "dst">>].exists
                               THEN [s2 EXCEPT !.err = "IOError"]
                          ELSE LET d == IdentLoad(id[dref], idd, af[<<n, "dst">>].data)
                                   id1 == [id EXCEPT ![dref] = d.io]
                                   s3 == [s2 EXCEPT !.ident = id1, !.identDefault = d.dflt]
                               IN  IF d.err # "none" THEN [s3 EXCEPT !.err = d.err]
                                   ELSE IF ~af[<<n, "snd">>].exists
                                        THEN [s3 EXCEPT !.err = "IOError"]
                                   ELSE LET c == IdentLoad(id1[sref], d.dflt,
                                                           af[<<n, "snd">>].data)
                                        IN  [s3 EXCEPT !.ident = [id1 EXCEPT ![sref] = c.io],
                                                       !.identDefault = c.dflt,
                                                       !.err = c.err]

LoadPath ==
    /\ LET r == TLLoadPath(version, group, groupDefault, ident, identDefault,
                           dstRef, sndRef, verFile, addrFiles)
       IN  /\ version' = r.version
           /\ group' = r.group
           /\ groupDefault' = r.groupDefault
           /\ ident' = r.ident
           /\ identDefault' = r.identDefault
           /\ last' = Call("load_path", r.err,
                           IF last.op = "dump_path" /\ last.err # "none"
                           THEN "after failed dump_path" ELSE "", version)
    /\ UNCHANGED <<adapterVars, buf, dstRef, sndRef, verFile, addrFiles>>

Next ==
    \/ \E kind \in ArgKinds : SetDst(kind, 1)
    \/ \E kind \in ArgKinds, rev \in NewRevs : SetSnd(kind, rev)
    \/ VersionIncrease
    \/ \E cfg \in Configs : LoadConfig(cfg)
    \/ \E k \in FilesWritten : DumpPath(k)
    \/ LoadPath

Spec == Init /\ [][Next]_vars

(***************************************************************************)
(* Calls on the Group object alone (TargetList.group is a public field).   *)
(***************************************************************************)
\* group = Group(short_columns): a new object, columns bound to the default list
GroupConstruct(short) ==
    /\ group' = GroupNew(short)
    /\ last' = Call("Group", "none", "", 0)
    /\ UNCHANGED <<adapterVars, buf, version, groupDefault, ident, identDefault, dstRef, sndRef,
                   verFile, addrFiles>>

\* group.add_column(GroupColumn(nr, name)), nr the next free column number
GroupAddColumn(name) ==
    /\ Len(Columns) < group.max_columns + ExtraAdds
    /\ name \in (IF Columns = <<>> THEN FirstNames ELSE LaterNames)
    /\ LET a == AddColumn(group, groupDefault, [nr |-> Len(Columns) + 1, name |-> name])
       IN  /\ group' = a.g
           /\ groupDefault' = a.dflt
           /\ last' = Call("add_column", a.err, "", Len(Columns)) @@ [name |-> name]
    /\ UNCHANGED <<adapterVars, buf, version, ident, identDefault, dstRef, sndRef, verFile, addrFiles>>

\* the buffers Group.load is called with, made from the group's own dump
GroupInputKinds == {"dump", "cut", "flag only", "short", "unknown flag", "other mode",
                    "other magic"}

GroupInput(kind) ==
    LET d == GroupDump(group, groupDefault)
    IN  CASE kind = "dump" -> d
          [] kind = "cut" -> SubSeq(d, 1, Len(d) - 1)
          [] kind = "flag only" -> SubSeq(d, 1, 4)
          [] kind = "short" -> SubSeq(d, 1, 3)
          [] kind = "unknown flag" -> BE(5, 4) \o SubSeq(d, 5, Len(d))
          [] kind = "other magic" ->
                 SubSeq(d, 1, 4) \o [i \in 1..32 |-> 255] \o SubSeq(d, 37, Len(d))
          [] kind = "other mode" ->
                 (IF group.short_columns THEN BE(6, 4) ELSE BE(11, 4)) \o SubSeq(d, 5, Len(d))

\* group.load(data)
GroupLoadData(kind) ==
    /\ LET a == GroupLoad(group, groupDefault, GroupInput(kind))
       IN  /\ group' = a.g
           /\ groupDefault' = a.dflt
           /\ last' = Call("Group.load", a.err, kind, 0)
    /\ UNCHANGED <<adapterVars, buf, version, ident, identDefault, dstRef, sndRef, verFile, addrFiles>>

\* group.load_config(config_file, 'ds_groups')
GroupLoadSection(sec) ==
    /\ LET a == GroupLoadConfig(group, groupDefault, sec)
       IN  /\ group' = a.g
           /\ groupDefault' = a.dflt
           /\ last' = Call("Group.load_config", a.err, "", 0)
    /\ UNCHANGED <<adapterVars, buf, version, ident, identDefault, dstRef, sndRef, verFile, addrFiles>>

NextGroup ==
    \/ \E short \in BOOLEAN : GroupConstruct(short)
    \/ \E name \in FirstNames \cup LaterNames : GroupAddColumn(name)
    \/ \E kind \in GroupInputKinds : GroupLoadData(kind)
    \/ \E sec \in GroupSections : GroupLoadSection(sec)

SpecGroup == Init /\ [][NextGroup]_vars

(***************************************************************************)
(* Calls on the Identifiers objects alone, and the buffers of Version.load. *)
(***************************************************************************)
\* the buffers Identifiers.load is called with, made from the object's own dump
IdentInputKinds == {"dump", "cut", "header only", "unknown flag", "cut in entry",
                    "short header", "trailing bytes", "unknown second flag"}

IdentInput(o, kind) ==
    LET d == IdentDump(ident[o], identDefault)
    IN  CASE kind = "dump" -> d
          [] kind = "cut" -> SubSeq(d, 1, Len(d) - 1)
          [] kind = "header only" -> SubSeq(d, 1, 12)
          [] kind = "unknown flag" ->
                 IF Len(d) < 18 THEN d
                 ELSE SubSeq(d, 1, 16) \o BE(1, 2) \o SubSeq(d, 19, Len(d))
          [] kind = "cut in entry" ->
                 IF Len(d) < 18 THEN d ELSE SubSeq(d, 1, 16) \o BE(1, 2)
          [] kind = "short header" -> SubSeq(d, 1, 11)
          [] kind = "unknown second flag" ->
                 IF Len(d) < 54 THEN d
                 ELSE SubSeq(d, 1, 52) \o BE(32768, 2) \o SubSeq(d, 55, Len(d))
          [] kind = "trailing bytes" -> d \o <<255, 1>>

\* ident[o].load(data)
IdentLoadData(o, kind) ==
    /\ ident[o] # NoObject
    /\ LET a == IdentLoad(ident[o], identDefault, IdentInput(o, kind))
       IN  /\ ident' = [ident EXCEPT ![o] = a.io]
           /\ identDefault' = a.dflt
           /\ last' = Call("Identifiers.load", a.err, kind, o) @@
                        [cnt |-> a.cnt, len |-> Len(IdentInput(o, kind))]
    /\ UNCHANGED <<adapterVars, buf, version, group, groupDefault, dstRef, sndRef, verFile, addrFiles>>

\* the item lists Identifiers.load_config is called with
ItemLists == {<<>>, <<ItemFront, ItemBob>>, <<ItemBob, ItemYes>>}

\* ident[o].load_config(config_file, section)
IdentLoadItems(o, items) ==
    /\ ident[o] # NoObject
    /\ ident[o].revision_nr < MaxRev
    /\ LET a == IdentLoadConfig(ident[o], identDefault, items)
       IN  /\ ident' = [ident EXCEPT ![o] = a.io]
           /\ identDefault' = a.dflt
           /\ last' = Call("Identifiers.load_config", a.err, "", o) @@ [items |-> items]
    /\ UNCHANGED <<adapterVars, buf, version, group, groupDefault, dstRef, sndRef, verFile, addrFiles>>

\* the buffers Version.load is called with, made from the object's own dump
VersionInputKinds == {"dump", "three bytes", "five bytes", "empty", "zero"}

VersionInput(kind) ==
    LET d == VersionDump(version)
    IN  CASE kind = "dump" -> d
          [] kind = "three bytes" -> SubSeq(d, 1, 3)
          [] kind = "five bytes" -> d \o <<0>>
          [] kind = "empty" -> <<>>
          [] kind = "zero" -> BE(0, 4)

\* version.load(data)
VersionLoadData(kind) ==
    /\ LET v == VersionLoad(version, VersionInput(kind))
       IN  /\ version' = v.gen
           /\ last' = Call("Version.load", v.err, kind, 0)
    /\ UNCHANGED <<adapterVars, buf, group, groupDefault, ident, identDefault, dstRef, sndRef,
                   verFile, addrFiles>>

\* load and load_config are called on the destinations list; add_entry on any list
NextLists ==
    \/ \E o \in IdObjs : NewIdentifiers(o, 1)
    \/ \E o \in IdObjs, e \in Entries : IdentAddEntry(o, e)
    \/ \E kind \in IdentInputKinds : IdentLoadData(dstRef, kind)
    \/ \E items \in ItemLists : IdentLoadItems(dstRef, items)

SpecLists == Init /\ [][NextLists]_vars

(***************************************************************************)
(* Properties of the TargetList (checked under Spec).                      *)
(***************************************************************************)
DstRevision == ident[dstRef].revision_nr
SndRevision == ident[sndRef].revision_nr

\* the revision number in the header of a dumped list
HeaderRevision(data) == FromBE(SubSeq(data, 9, 12))

\* C1: a call of the destinations setter or of the senders setter with a list
\* of revision r' completes and leaves the stored list with revision
\* max(r, r'), r the revision stored before (so r' < r leaves exactly r).
C1_SetterStoresMax ==
    [][ /\ last'.op = "set_dst" =>
             /\ last'.err = "none"
             /\ DstRevision' = Max(DstRevision, last'.n)
        /\ last'.op = "set_snd" =>
             /\ last'.err = "none"
             /\ SndRevision' = Max(SndRevision, last'.n) ]_vars

\* C2 as claimed: no call (setter, load_config, dump_path, load_path) lowers
\* the revision number of the stored destinations list or senders list.
C2_RevisionNeverDecreases ==
    [][DstRevision' >= DstRevision /\ SndRevision' >= SndRevision]_vars

\* C2 as amended: no setter, load_config or dump_path call lowers the revision
\* number of a stored list; a load_path call that succeeds sets the revision
\* numbers to the ones in the headers of the list files it reads.
C2_RevisionKeptExceptByLoadPath ==
    [][ /\ last'.op # "load_path" =>
             DstRevision' >= DstRevision /\ SndRevision' >= SndRevision
        /\ (last'.op = "load_path" /\ last'.err = "none") =>
             /\ SndRevision' = HeaderRevision(addrFiles[<<version', "snd">>].data)
             /\ dstRef # sndRef =>
                  DstRevision' = HeaderRevision(addrFiles[<<version', "dst">>].data) ]_vars

\* C2 witness: the senders setter was called with a list of a lower revision
\* than the stored one, and the stored revision stayed above it.
C2_Witness == last.op = "set_snd" /\ last.n < SndRevision

\* C3 as claimed: the generation number never decreases and changes only by
\* an explicit increase.
C3_GenerationOnlyIncreased ==
    [][version' >= version /\ (version' # version => last'.op = "increase")]_vars

\* C3 as amended: increase adds exactly 1; load_path sets the generation
\* number to the number in the generation file (when it has four bytes);
\* every other call leaves it unchanged.
C3_GenerationSetByIncreaseAndLoadPath ==
    [][ /\ last'.op = "increase" => version' = version + 1
        /\ last'.op = "load_path" =>
             version' = IF verFile.exists /\ Len(verFile.data) = 4
                        THEN FromBE(verFile.data) ELSE version
        /\ last'.op \notin {"increase", "load_path"} => version' = version ]_vars

\* C3 witness: load_path has lowered the generation number.
C3_Witness == last.op = "load_path" /\ version < last.n

\* C4: a dump_path that ends after the generation file leaves that file with
\* the current generation number and the three Address files of that
\* generation as they were (missing or from an earlier save); a load_path
\* that follows reads that generation number and fails, or loads what those
\* earlier files hold; it fails when one of them is missing.
C4_InterruptedSave ==
    [][ /\ (last'.op = "dump_path" /\ last'.n = 1) =>
             /\ verFile' = File(BE(version, 4))
             /\ \A s \in Suffixes : addrFiles'[<<version, s>>] = addrFiles[<<version, s>>]
        /\ (last.op = "dump_path" /\ last.n = 1 /\ last'.op = "load_path") =>
             /\ version' = FromBE(verFile.data)
             /\ (\E s \in Suffixes : ~addrFiles[<<version', s>>].exists) =>
                  last'.err # "none"
             /\ last'.err = "none" =>
                  /\ GroupDump(group', groupDefault')[4] =
                         addrFiles[<<version', "grp">>].data[4]
                  /\ SndRevision' = HeaderRevision(addrFiles[<<version', "snd">>].data)
                  /\ Len(SndEntries') =
                         FromBE(SubSeq(addrFiles[<<version', "snd">>].data, 1, 4)) ]_vars

\* C4 witness: load_path succeeded right after a dump_path that had ended
\* after the generation file, on the files of an earlier save.
C4_Witness ==
    last.op = "load_path" /\ last.arg = "after failed dump_path" /\ last.err = "none"

(***************************************************************************)
(* Properties of the Group (checked under SpecGroup).                      *)
(***************************************************************************)
\* a layout within its mode's cap whose names are within its mode's width
ValidLayout ==
    /\ Len(Columns) <= CalcMaxColumns(group.short_columns)
    /\ \A i \in 1..Len(Columns) : Len(Columns[i].name) <= NameWidth(group.short_columns)

\* the call was load(self.dump())
LoadsOwnDump(call) == call.op = "Group.load" /\ call.arg = "dump"

\* C5 as claimed: decoding the encoding of a valid layout (any number of
\* columns up to the cap) yields the same mode and the identical columns.
C5_GroupRoundTrip ==
    [][ (LoadsOwnDump(last') /\ ValidLayout) =>
            /\ last'.err = "none"
            /\ group'.short_columns = group.short_columns
            /\ Columns' = Columns ]_vars

\* C5 as amended: decoding the encoding of a valid layout of at least
\* max_columns - 1 columns yields the same mode and the first max_columns - 1
\* columns, each name filled with null bytes to the mode's width; with fewer
\* columns decoding fails with UnpackBufException.
C5_GroupRoundTripFixedCount ==
    [][ (LoadsOwnDump(last') /\ ValidLayout) =>
            LET n == group.max_columns - 1
                w == NameWidth(group.short_columns)
            IN  IF Len(Columns) < n THEN last'.err = "UnpackBufException"
                ELSE /\ last'.err = "none"
                     /\ group'.short_columns = group.short_columns
                     /\ Columns' = [i \in 1..n |->
                                      [nr |-> Columns[i].nr,
                                       name |-> PackS(Columns[i].name, w)]] ]_vars

\* C5 witness: a layout of max_columns - 1 columns was decoded from its own
\* encoding, and its first name ends in the null bytes of the encoding.
C5_Witness ==
    /\ LoadsOwnDump(last) /\ last.err = "none"
    /\ Len(Columns) = group.max_columns - 1
    /\ Columns[1].name[NameWidth(group.short_columns)] = 0

\* C7: with n columns held before the call, add_column fails with
\* GroupException when n is the cap (the 11th add in compact mode, the 6th in
\* wide mode) and succeeds when n is below the cap.
C7_AddFailsAtCap ==
    last.op = "add_column" =>
        /\ last.n = group.max_columns => last.err = "GroupException"
        /\ last.n < group.max_columns => last.err = "none"

\* C8: a compact layout holds at most 10 columns, a wide layout at most 5.
C8_ColumnCap ==
    /\ group.short_columns => Len(Columns) <= 10
    /\ ~group.short_columns => Len(Columns) <= 5

(***************************************************************************)
(* Properties of the Identifiers objects (under SpecLists) and of the      *)
(* Version object (under SpecBuf).                                         *)
(***************************************************************************)
\* the entries of the object in slot o
EntriesAt(o) == EntriesOf(ident[o], identDefault)

\* the entries of the object in slot o after the step
EntriesAfter(o) == EntriesOf(ident'[o], identDefault')

\* the call was load(self.dump()) on the object in slot last.n
LoadsOwnList(call) == call.op = "Identifiers.load" /\ call.arg = "dump"

\* C6 as claimed: decoding the encoding of a list yields the same revision
\* number and the same entries in the same order, names included (a name
\* shorter than 16 bytes comes back without the padding).
C6_IdentRoundTrip ==
    [][ LoadsOwnList(last') =>
            /\ last'.err = "none"
            /\ ident'[last'.n].revision_nr = ident[last'.n].revision_nr
            /\ EntriesAfter(last'.n) = EntriesAt(last'.n) ]_vars

\* C6 as amended: ... the same entries in the same order with equal id,
\* use_frequently and group_nr, and each name filled with null bytes to 16
\* bytes (the padding is not stripped).
C6_IdentRoundTripPadded ==
    [][ LoadsOwnList(last') =>
            /\ last'.err = "none"
            /\ ident'[last'.n].revision_nr = ident[last'.n].revision_nr
            /\ EntriesAfter(last'.n) =
                   [i \in 1..Len(EntriesAt(last'.n)) |->
                      [EntriesAt(last'.n)[i] EXCEPT !.name = PackS(@, 16)]] ]_vars

\* C6 witness: a list of two entries was decoded from its own encoding; the
\* first is used frequently and its name ends in null bytes.
C6_Witness ==
    /\ LoadsOwnList(last) /\ last.err = "none"
    /\ Len(EntriesAt(last.n)) = 2
    /\ EntriesAt(last.n)[1].use_frequently
    /\ EntriesAt(last.n)[1].id # EntriesAt(last.n)[2].id
    /\ EntriesAt(last.n)[1].name[16] = 0

\* C9: add_entry on one list leaves the entries of every other Identifiers
\* object unchanged (the other list of the TargetList, other new objects).
C9_AddEntryFrame ==
    [][ last'.op = "add_entry" =>
            \A p \in IdObjs \ {last'.n} : EntriesAfter(p) = EntriesAt(p) ]_vars

\* the buffers of fewer than four bytes
ShortVersionInputs == {"three bytes", "empty"}

HeaderCount(data) == FromBE(SubSeq(data, 1, 4))

\* the buffer ends before the header or the declared entries do
TooShort(data) == Len(data) < 12 \/ Len(data) < 12 + 36 * HeaderCount(data)

\* the frequency marker of entry i lies within the buffer and is unknown
UnknownMarker(data, i) ==
    /\ 12 + 36 * (i - 1) + 6 <= Len(data)
    /\ FromBE(SubSeq(data, 12 + 36 * (i - 1) + 5, 12 + 36 * (i - 1) + 6)) \notin {32769, 0}

\* the buffer the last Identifiers.load was called with, seen from before the call
LoadedBuffer == IdentInput(last'.n, last'.arg)

\* C11 as claimed: Identifiers.load on a buffer of fewer than 12 + 36 *
\* entry_count bytes fails with UnpackBufException; the offset never passes
\* the buffer's length; a successful load has read the header and exactly
\* entry_count entries and ignored the bytes after them.
C11_LoadReadsDeclaredEntries ==
    [][ last'.op = "Identifiers.load" =>
          LET data == LoadedBuffer
          IN  /\ last'.cnt <= last'.len
              /\ TooShort(data) => last'.err = "UnpackBufException"
              /\ last'.err = "none" =>
                     /\ last'.cnt = 12 + 36 * HeaderCount(data)
                     /\ Len(EntriesAfter(last'.n)) = HeaderCount(data) ]_vars

\* C11 as amended: ... on such a buffer the load fails: with
\* IdentifierException when the marker of an entry lies within the buffer and
\* is unknown, and with UnpackBufException otherwise; the rest as claimed.
C11_LoadReadsDeclaredEntriesOrMarker ==
    [][ last'.op = "Identifiers.load" =>
          LET data == LoadedBuffer
          IN  /\ last'.cnt <= last'.len
              /\ TooShort(data) =>
                     last'.err = IF Len(data) >= 12 /\
                                     \E i \in 1..HeaderCount(data) : UnknownMarker(data, i)
                                  THEN "IdentifierException" ELSE "UnpackBufException"
              /\ last'.err = "none" =>
                     /\ last'.cnt = 12 + 36 * HeaderCount(data)
                     /\ Len(EntriesAfter(last'.n)) = HeaderCount(data) ]_vars

\* C11 witness: a buffer that declares two entries and ends one byte early
\* was loaded; the first entry was read and the load failed at the second.
C11_Witness ==
    /\ last.op = "Identifiers.load" /\ last.arg = "cut"
    /\ last.err = "UnpackBufException"
    /\ last.len = 12 + 72 - 1 /\ last.cnt = 12 + 36 + 6

(***************************************************************************)
(* Calls on an UnpackBuf object and on the Version object alone.           *)
(***************************************************************************)
\* the buffers UnpackBuf is made with: nothing, three bytes, and the dumps of
\* a Version, of a new compact Group and of a list of one entry
BufferData ==
    { <<>>, <<0, 0, 1>>, VersionDump(1), GroupDump(GroupNew(TRUE), <<>>),
      IdentDump(IdentNew(1), <<EntryFront>>) }

\* struct.calcsize of the formats unpack is called with in this file:
\* ">L", "32x", ">L 4s 16x", ">L 4x L", ">L H", ">H 4x 8x 16s"
FormatSizes == {4, 32, 24, 12, 6, 30}

\* buf = UnpackBuf(data)
BufNew(data) ==
    /\ buf' = UnpackBufNew(data)
    /\ last' = Call("UnpackBuf", "none", "", 0)
    /\ UNCHANGED <<adapterVars, version, group, groupDefault, ident, identDefault,
                   dstRef, sndRef,
                   verFile, addrFiles>>

\* buf.unpack(fmt), l = struct.calcsize(fmt); last keeps what the call
\* returned or what its exception reports
BufUnpack(l) ==
    /\ LET u == Unpack(buf.data, buf.cnt, l)
       IN  /\ buf' = [buf EXCEPT !.cnt = u.cnt]
           /\ last' = Call("unpack", IF u.ok THEN "none" ELSE "UnpackBufException", "", l) @@
                        [bytes |-> u.bytes, left |-> u.left, wanted |-> u.wanted]
    /\ UNCHANGED <<adapterVars, version, group, groupDefault, ident, identDefault,
                   dstRef, sndRef,
                   verFile, addrFiles>>

NextBuf ==
    \/ \E data \in BufferData : BufNew(data)
    \/ \E l \in FormatSizes : BufUnpack(l)
    \/ \E kind \in VersionInputKinds : VersionLoadData(kind)
    \/ VersionIncrease

SpecBuf == Init /\ [][NextBuf]_vars

\* C12: unpack of width w at offset o over n bytes fails with
\* UnpackBufException (reporting n - o left and w wanted) exactly when
\* o + w > n, and then the offset stays o; otherwise it returns the bytes
\* [o, o + w) and the offset becomes o + w.  The offset stays within 0..n.
C12_UnpackBounded ==
    [][ /\ buf'.cnt \in 0..Len(buf'.data)
        /\ last'.op = "unpack" =>
             LET o == buf.cnt
                 n == Len(buf.data)
                 w == last'.n
             IN  /\ buf'.data = buf.data
                 /\ IF o + w > n
                    THEN /\ last'.err = "UnpackBufException"
                         /\ last'.left = n - o /\ last'.wanted = w
                         /\ buf'.cnt = o
                    ELSE /\ last'.err = "none"
                         /\ last'.bytes = [i \in 1..w |-> buf.data[o + i]]
                         /\ buf'.cnt = o + w ]_vars

\* C12 witness: after reads that moved the offset, a read wanted more bytes
\* than the bytes left and failed; the bytes left are as many as another
\* format takes.
C12_Witness ==
    /\ last.op = "unpack" /\ last.err = "UnpackBufException"
    /\ buf.cnt > 0 /\ last.left > 0 /\ last.left < last.wanted
    /\ Len(buf.data) - buf.cnt \in FormatSizes

(***************************************************************************)
(* Saving and loading with a save that can end after any number of files.  *)
(***************************************************************************)
\* the numbers of files a call of dump_path writes before an open() raises
\* IOError; 4: the call completes
InterruptionPoints == 0..4

NextSave ==
    \/ VersionIncrease
    \/ \E cfg \in Configs : LoadConfig(cfg)
    \/ \E k \in InterruptionPoints : DumpPath(k)
    \/ LoadPath

SpecSave == Init /\ [][NextSave]_vars

\* the generation number stored in the generation file
StoredGeneration(file) == FromBE(file.data)

\* C13: a dump_path that wrote k files wrote the first k of: the generation
\* file, then the layout, destinations and senders files; the latter carry in
\* their names the generation number written to the generation file and hold
\* the dumps of the layout and the lists; no other file changes, and neither
\* do the generation number, the layout and the lists.
C13_DumpOrderAndFrame ==
    [][ last'.op = "dump_path" =>
          LET k == last'.n
          IN  /\ UNCHANGED <<version, group, groupDefault, ident, identDefault,
                             dstRef, sndRef>>
              /\ last'.err = "none" <=> k = 4
              /\ verFile' = IF k >= 1 THEN File(BE(version, 4)) ELSE verFile
              /\ \A f \in Gens \X Suffixes :
                    addrFiles'[f] =
                      IF k >= 1 /\ f[1] = StoredGeneration(verFile')
                      THEN CASE f[2] = "grp" /\ k >= 2 ->
                                    File(GroupDump(group, groupDefault))
                             [] f[2] = "dst" /\ k >= 3 ->
                                    File(IdentDump(ident[dstRef], identDefault))
                             [] f[2] = "snd" /\ k >= 4 ->
                                    File(IdentDump(ident[sndRef], identDefault))
                             [] OTHER -> addrFiles[f]
                      ELSE addrFiles[f] ]_vars

\* C13 witness: a dump_path at generation 2 ended after three files: the
\* generation file holds 2, the destinations file of generation 2 exists and
\* the senders file of generation 2 does not.
C13_Witness ==
    /\ last.op = "dump_path" /\ last.n = 3 /\ version = 2
    /\ verFile.exists /\ StoredGeneration(verFile) = 2
    /\ addrFiles[<<2, "grp">>].exists /\ addrFiles[<<2, "dst">>].exists
    /\ ~addrFiles[<<2, "snd">>].exists

\* C14: load_path reads the generation file first (without it the call fails
\* and changes nothing) and then opens the layout, destinations and senders
\* files named with the number read from it, not with the number held before:
\* the call succeeds exactly when those three files exist and decode, and then
\* leaves the layout and the lists decoded from them.
C14_LoadReadsStoredGeneration ==
    [][ last'.op = "load_path" =>
          IF ~verFile.exists
          THEN /\ last'.err = "IOError"
               /\ UNCHANGED <<version, group, groupDefault, ident, identDefault>>
          ELSE LET g == StoredGeneration(verFile)
                   grp == addrFiles[<<g, "grp">>]
                   dst == addrFiles[<<g, "dst">>]
                   snd == addrFiles[<<g, "snd">>]
               IN  /\ version' = g
                   /\ ~grp.exists => /\ last'.err = "IOError"
                                     /\ UNCHANGED <<group, groupDefault, ident, identDefault>>
                   /\ last'.err = "none" <=>
                        /\ grp.exists /\ dst.exists /\ snd.exists
                        /\ GroupLoad(group, groupDefault, grp.data).err = "none"
                        /\ IdentLoad(ident[dstRef], identDefault, dst.data).err = "none"
                        /\ IdentLoad(ident[sndRef], identDefault, snd.data).err = "none"
                   /\ last'.err = "none" =>
                        /\ group' = GroupLoad(group, groupDefault, grp.data).g
                        /\ ident'[dstRef] =
                               IdentLoad(ident[dstRef], identDefault, dst.data).io
                        /\ ident'[sndRef] =
                               IdentLoad(ident[sndRef], identDefault, snd.data).io ]_vars

\* C14 witness: load_path succeeded although no file of the generation held
\* before the call exists; it read the files of the stored generation.
C14_Witness ==
    /\ last.op = "load_path" /\ last.err = "none" /\ last.n # version
    /\ \A s \in Suffixes : ~addrFiles[<<last.n, s>>].exists
    /\ \A s \in Suffixes : addrFiles[<<version, s>>].exists

(***************************************************************************)
(* Loading from configuration files.                                       *)
(***************************************************************************)
\* configuration files: a complete one, and ones that fail in [ds_groups],
\* in [ds_destinations] and in [ds_senders]
ConfigFiles ==
    { [groups |-> SecCompact, dst |-> <<ItemFront, ItemBob>>, snd |-> <<ItemSixteen>>],
      [groups |-> SecWide, dst |-> <<>>, snd |-> <<>>],
      [groups |-> SecFewCols, dst |-> <<ItemBob>>, snd |-> <<>>],
      [groups |-> SecNoBool, dst |-> <<ItemBob>>, snd |-> <<>>],
      [groups |-> SecCompact, dst |-> <<ItemYes>>, snd |-> <<ItemBob>>],
      [groups |-> SecWide, dst |-> <<ItemBob>>, snd |-> <<ItemFront, ItemBadGroup>>] }

\* the item lists of one section
ConfigItemLists ==
    ItemLists \cup
    { <<ItemFront>>, <<ItemFront, ItemBadGroup>>, <<ItemBadId, ItemBob>>,
      <<ItemBob, ItemTwoFields>>, <<ItemYes, ItemBadId>> }

\* load_config of the TargetList and of its two lists; the senders setter
\* can store the destinations list as the senders list, too
NextConfig ==
    \/ \E kind \in ArgKinds, rev \in NewRevs : SetSnd(kind, rev)
    \/ \E o \in {dstRef, sndRef}, items \in ConfigItemLists : IdentLoadItems(o, items)
    \/ \E cfg \in ConfigFiles : LoadConfig(cfg)
    \/ VersionIncrease

SpecConfig == Init /\ [][NextConfig]_vars

\* C15: TargetList.load_config leaves the generation number unchanged,
\* whether it succeeds or fails.
C15_LoadConfigKeepsGeneration ==
    [][last'.op = "load_config" => version' = version]_vars

\* C15 witness: at a generation reached by increase, load_config has failed
\* in the senders section after the layout and the destinations were loaded.
C15_Witness ==
    /\ last.op = "load_config" /\ last.err = "ValueError"
    /\ version = 2 /\ ~group.short_columns /\ Len(DstEntries) = 1

\* C16 as claimed: every Identifiers.load_config adds exactly 1 to its list's
\* revision number, whatever the items and however it ends; a successful
\* TargetList.load_config adds exactly 1 to the destinations revision and
\* exactly 1 to the senders revision.
C16_LoadConfigAddsOne ==
    [][ /\ last'.op = "Identifiers.load_config" =>
              ident'[last'.n].revision_nr = ident[last'.n].revision_nr + 1
        /\ (last'.op = "load_config" /\ last'.err = "none") =>
              /\ DstRevision' = DstRevision + 1
              /\ SndRevision' = SndRevision + 1 ]_vars

\* C16 as amended: ... a successful TargetList.load_config adds exactly 1 to
\* each of the two revisions when the lists are two objects, and 2 to the one
\* revision when the same Identifiers object is stored as both lists.
C16_LoadConfigAddsOnePerObject ==
    [][ /\ last'.op = "Identifiers.load_config" =>
              ident'[last'.n].revision_nr = ident[last'.n].revision_nr + 1
        /\ (last'.op = "load_config" /\ last'.err = "none") =>
              IF dstRef = sndRef
              THEN DstRevision' = DstRevision + 2 /\ SndRevision' = SndRevision + 2
              ELSE DstRevision' = DstRevision + 1 /\ SndRevision' = SndRevision + 1 ]_vars

\* C16 witness: the destinations list is stored as the senders list as well,
\* and a TargetList.load_config has succeeded on a list of revision 1.
C16_Witness ==
    /\ last.op = "load_config" /\ last.err = "none"
    /\ dstRef = sndRef /\ DstRevision = 3

\* the comma-separated fields of a configuration item's value
Fields(it) == Split(it.data, 44)

\* the frequency token of an item: its second field
TokenOf(it) == IF Len(Fields(it)) >= 2 THEN Fields(it)[2] ELSE <<>>

KnownToken(it) == TokenOf(it) \in {TokTrue, TokFalse}

\* the entry a configuration item stands for
EntryOf(it) ==
    [id |-> ParseInt(it.id), use_frequently |-> (TokenOf(it) = TokTrue),
     group_nr |-> ParseInt(Fields(it)[3]), name |-> Fields(it)[1]]

\* the items of the last Identifiers.load_config
LoadedItems == last'.items

\* C20 as claimed: Identifiers.load_config fails with IdentifierException when
\* the frequency token of an item is neither 'true' nor 'false'; otherwise it
\* builds one entry per item with the parsed id, name, flag and group number.
C20_ConfigToken ==
    [][ last'.op = "Identifiers.load_config" =>
          IF \E i \in 1..Len(LoadedItems) : ~KnownToken(LoadedItems[i])
          THEN last'.err = "IdentifierException"
          ELSE /\ last'.err = "none"
               /\ EntriesAfter(last'.n) =
                      [i \in 1..Len(LoadedItems) |-> EntryOf(LoadedItems[i])] ]_vars

\* an item int() and split(',') accept: a decimal id, three fields
Splits(it) == IsDigits(it.id) /\ Len(Fields(it)) = 3

\* an item that yields an entry
Parses(it) == Splits(it) /\ KnownToken(it) /\ IsDigits(Fields(it)[3])

\* C20 as amended: Identifiers.load_config builds one entry per item, with the
\* parsed id, name, flag and group number, when every item has a decimal id,
\* three comma-separated fields, the token 'true' or 'false' and a decimal
\* group number.  Otherwise it fails at the first item that has not: with
\* IdentifierException when that item has a decimal id and three fields but
\* an unknown token, and with ValueError in the other cases; the list then
\* holds the entries of the items before that one.
C20_ConfigTokenOrValue ==
    [][ last'.op = "Identifiers.load_config" =>
          LET failing == {i \in 1..Len(LoadedItems) : ~Parses(LoadedItems[i])}
          IN  IF failing = {}
              THEN /\ last'.err = "none"
                   /\ EntriesAfter(last'.n) =
                          [i \in 1..Len(LoadedItems) |-> EntryOf(LoadedItems[i])]
              ELSE LET f == CHOOSE i \in failing : \A j \in failing : i <= j
                   IN  /\ last'.err = IF Splits(LoadedItems[f]) /\ ~KnownToken(LoadedItems[f])
                                      THEN "IdentifierException" ELSE "ValueError"
                       /\ EntriesAfter(last'.n) =
                              [i \in 1..(f - 1) |-> EntryOf(LoadedItems[i])] ]_vars

\* C20 witness: load_config was given an item with an unknown token after an
\* item that parses; it failed with IdentifierException and the list holds
\* the entry of the first item, flag false.
C20_Witness ==
    /\ last.op = "Identifiers.load_config" /\ last.err = "IdentifierException"
    /\ last.items = <<ItemBob, ItemYes>>
    /\ Len(EntriesAt(last.n)) = 1 /\ ~EntriesAt(last.n)[1].use_frequently

\* C17: n calls of increase in a row on a Version holding g leave g + n;
\* each call adds exactly 1.
C17_IncreaseCounts ==
    [][ last'.op = "increase" =>
            /\ version' = version + 1
            /\ version' = last'.start + last'.n ]_vars

\* C17 witness: increase was called twice in a row.
C17_Witness == last.op = "increase" /\ last.n = 2 /\ version = last.start + 2

\* the buffer the last Group.load was called with, seen from before the call
LoadedLayout == GroupInput(last'.arg)

\* the format flag of a buffer of at least 4 bytes (every buffer but "short")
FormatFlag(data) == FromBE(SubSeq(data, 1, 4))

\* C18: Group.load of a buffer whose 4-byte flag is neither 0xB nor 0x6 fails
\* with GroupException and leaves mode, cap and columns as they were; the
\* flag 0xB makes the layout compact (cap 10), the flag 0x6 wide (cap 5).
C18_UnknownFormat ==
    [][ (last'.op = "Group.load" /\ last'.arg # "short") =>
          LET flag == FormatFlag(LoadedLayout)
          IN  /\ flag \notin {11, 6} =>
                    /\ last'.err = "GroupException"
                    /\ group'.short_columns = group.short_columns
                    /\ group'.max_columns = group.max_columns
                    /\ Columns' = Columns
              /\ flag = 11 =>
                    /\ last'.err # "GroupException"
                    /\ group'.short_columns /\ group'.max_columns = 10
              /\ flag = 6 =>
                    /\ last'.err # "GroupException"
                    /\ ~group'.short_columns /\ group'.max_columns = 5 ]_vars

\* C18 witness: a wide layout with columns was given a buffer with the flag
\* 5 and the load failed with GroupException.
C18_Witness ==
    /\ last.op = "Group.load" /\ last.arg = "unknown flag"
    /\ last.err = "GroupException"
    /\ ~group.short_columns /\ Len(Columns) = 4

\* the frequency marker of entry i of a buffer that holds it
MarkerOf(data, i) ==
    FromBE(SubSeq(data, 12 + 36 * (i - 1) + 5, 12 + 36 * (i - 1) + 6))

\* C19: Identifiers.load fails with IdentifierException as soon as the marker
\* of an entry is neither 0x8001 nor 0x0000: the entries before that one were
\* read and nothing after its marker; an entry that was read is used
\* frequently exactly when its marker is 0x8001, and else its marker is 0.
C19_UnknownMarker ==
    [][ (last'.op = "Identifiers.load" /\ last'.len >= 12) =>
          LET data == LoadedBuffer
              after == EntriesAfter(last'.n)
              unknown == {i \in 1..HeaderCount(data) : UnknownMarker(data, i)}
          IN  /\ unknown # {} =>
                   LET f == CHOOSE i \in unknown : \A j \in unknown : i <= j
                   IN  /\ last'.err = "IdentifierException"
                       /\ Len(after) = f - 1
                       /\ last'.cnt = 12 + 36 * (f - 1) + 6
              /\ unknown = {} => last'.err # "IdentifierException"
              /\ \A i \in 1..Len(after) :
                   /\ MarkerOf(data, i) \in {32769, 0}
                   /\ after[i].use_frequently <=> MarkerOf(data, i) = 32769 ]_vars

\* C19 witness: the second entry of a buffer carries the marker 0x8000; the
\* load failed with IdentifierException after it had read the first entry,
\* whose marker 0x8001 made it used frequently.
C19_Witness ==
    /\ last.op = "Identifiers.load" /\ last.arg = "unknown second flag"
    /\ last.err = "IdentifierException"
    /\ Len(EntriesAt(last.n)) = 1 /\ EntriesAt(last.n)[1].use_frequently

\* C24: add_column looks at the number n of columns held before the call: it
\* fails with GroupException and changes nothing exactly when n is more than
\* max_columns, and otherwise appends the column at the end of the sequence.
C24_AddColumnCheck ==
    [][ last'.op = "add_column" =>
          IF last'.n > group.max_columns
          THEN last'.err = "GroupException" /\ Columns' = Columns
          ELSE /\ last'.err = "none"
               /\ Columns' = Append(Columns, [nr |-> last'.n + 1, name |-> last'.name])
               /\ last'.n = Len(Columns) ]_vars

\* C24 witness: add_column failed on a wide layout that held 6 columns, after
\* it had succeeded on the same layout holding 5.
C24_Witness ==
    /\ last.op = "add_column" /\ last.err = "GroupException"
    /\ ~group.short_columns /\ last.n = 6 /\ Len(Columns) = 6

\* Group objects built by the constructor and add_column alone, and loaded
NextLayout ==
    \/ \E short \in BOOLEAN : GroupConstruct(short)
    \/ \E name \in FirstNames \cup LaterNames : GroupAddColumn(name)
    \/ \E kind \in GroupInputKinds : GroupLoadData(kind)

SpecLayout == Init /\ [][NextLayout]_vars

\* record i (24 bytes) of a layout buffer that holds it
ColumnRecord(data, i) == SubSeq(data, 36 + 24 * (i - 1) + 1, 36 + 24 * i)

\* C25: Group.load of a buffer with a known flag looks at none of the next 32
\* bytes and then reads max_columns - 1 records of 24 bytes (9 compact, 4
\* wide): with at least 36 + 24 * (max_columns - 1) bytes it yields exactly
\* the columns of those records, and with fewer bytes it fails with
\* UnpackBufException, however many columns the buffer was made from.
C25_LoadReadsFixedCount ==
    [][ (last'.op = "Group.load" /\ last'.arg # "short") =>
          LET data == LoadedLayout
              flag == FormatFlag(data)
              n == IF flag = 11 THEN 9 ELSE 4
              w == IF flag = 11 THEN 4 ELSE 8
          IN  flag \in {11, 6} =>
                IF Len(data) >= 36 + 24 * n
                THEN /\ last'.err = "none"
                     /\ Columns' =
                          [i \in 1..n |->
                             [nr |-> FromBE(SubSeq(ColumnRecord(data, i), 1, 4)),
                              name |-> SubSeq(ColumnRecord(data, i), 5, 4 + w)]]
                ELSE last'.err = "UnpackBufException" ]_vars

\* C25 witness: a compact layout of 11 columns was encoded, its 32 constant
\* bytes were replaced, and the load gave the first 9 columns.
C25_Witness ==
    /\ last.op = "Group.load" /\ last.arg = "other magic" /\ last.err = "none"
    /\ group.short_columns /\ Len(Columns) = 9 /\ Len(groupDefault) = 11

(***************************************************************************)
(* One Identifiers object: two entries added in turn (so the third is the  *)
(* first again), encoded, and loaded from buffers whose header carries     *)
(* another revision number.                                                *)
(***************************************************************************)
\* the entry the caller adds to a list of n entries
EntryAfter(n) == IF n % 2 = 0 THEN EntryFront ELSE EntrySixteen

\* ident[o].add_entry(e), also of an entry the list already holds
IdentAddMore(o) ==
    /\ ident[o] # NoObject
    /\ Len(EntriesOf(ident[o], identDefault)) <= ExtraAdds
    /\ LET a == AddEntry(ident[o], identDefault,
                         EntryAfter(Len(EntriesOf(ident[o], identDefault))))
       IN  /\ ident' = [ident EXCEPT ![o] = a.io]
           /\ identDefault' = a.dflt
    /\ last' = Call("add_entry", "none", "", o)
    /\ UNCHANGED <<adapterVars, buf, version, group, groupDefault, dstRef, sndRef, verFile, addrFiles>>

\* ident[o].dump(): the state stays, the bytes are the result
IdentDumpCall(o) ==
    /\ ident[o] # NoObject
    /\ last' = Call("Identifiers.dump", "none", "", o) @@
                 [data |-> IdentDump(ident[o], identDefault)]
    /\ UNCHANGED <<adapterVars, buf, version, group, groupDefault, ident, identDefault, dstRef, sndRef,
                   verFile, addrFiles>>

\* the revision numbers in the headers of the loaded buffers: the lowest,
\* and one above every revision number the lists reach otherwise
HeaderRevs == {1, MaxRev + 1}

\* a buffer of at least 12 bytes with the revision field of its header replaced
WithRevision(data, rev) ==
    IF Len(data) < 12 THEN data
    ELSE SubSeq(data, 1, 8) \o BE(rev, 4) \o SubSeq(data, 13, Len(data))

\* ident[o].load(data), data made from the object's dump and another revision
IdentLoadRevised(o, kind, rev) ==
    /\ ident[o] # NoObject
    /\ LET data == WithRevision(IdentInput(o, kind), rev)
           a == IdentLoad(ident[o], identDefault, data)
       IN  /\ ident' = [ident EXCEPT ![o] = a.io]
           /\ identDefault' = a.dflt
           /\ last' = Call("Identifiers.load", a.err, kind, o) @@
                        [cnt |-> a.cnt, len |-> Len(data), rev |-> rev]
    /\ UNCHANGED <<adapterVars, buf, version, group, groupDefault, dstRef, sndRef, verFile, addrFiles>>

NextEntries ==
    \/ IdentAddMore(dstRef)
    \/ IdentDumpCall(dstRef)
    \/ \E kind \in IdentInputKinds, rev \in HeaderRevs : IdentLoadRevised(dstRef, kind, rev)

SpecEntries == Init /\ [][NextEntries]_vars

\* the 36 bytes of entry i in an encoded list
EntryBytes(data, i) == SubSeq(data, 12 + 36 * (i - 1) + 1, 12 + 36 * i)

\* C26: the result of Identifiers.dump on a list of n entries has 12 + 36 * n
\* bytes; its first field is n and its third the revision number; the i-th
\* block of 36 bytes holds the i-th entry added (equal entries each have their
\* block): id, marker 0x8001 if it is used frequently and 0x0000 otherwise,
\* group number, and the name in 16 bytes.
C26_DumpLayout ==
    last.op = "Identifiers.dump" =>
      LET es == EntriesAt(last.n)
          d == last.data
      IN  /\ Len(d) = 12 + 36 * Len(es)
          /\ FromBE(SubSeq(d, 1, 4)) = Len(es)
          /\ FromBE(SubSeq(d, 9, 12)) = ident[last.n].revision_nr
          /\ \A i \in 1..Len(es) :
               LET b == EntryBytes(d, i)
               IN  /\ FromBE(SubSeq(b, 1, 4)) = es[i].id
                   /\ FromBE(SubSeq(b, 5, 6)) = (IF es[i].use_frequently THEN 32769 ELSE 0)
                   /\ FromBE(SubSeq(b, 7, 8)) = es[i].group_nr
                   /\ SubSeq(b, 21, 36) = PackS(es[i].name, 16)

\* C26 witness: a list holding the same entry twice around another one, the
\* first two of different frequency, was encoded.
C26_Witness ==
    /\ last.op = "Identifiers.dump"
    /\ EntriesAt(last.n) = <<EntryFront, EntrySixteen, EntryFront>>
    /\ Len(last.data) = 120

\* the entry Identifiers.load makes of record i of a buffer
DecodedEntry(data, i) ==
    LET b == EntryBytes(data, i)
    IN  [id |-> FromBE(SubSeq(b, 1, 4)), use_frequently |-> (MarkerOf(data, i) = 32769),
         group_nr |-> FromBE(SubSeq(b, 7, 8)), name |-> SubSeq(b, 21, 36)]

\* record i lies within the buffer and its marker is known
GoodRecord(data, i) == 12 + 36 * i <= Len(data) /\ MarkerOf(data, i) \in {32769, 0}

\* the number of records read whole before the first that cannot be
DecodedBefore(data) ==
    CHOOSE j \in 0..HeaderCount(data) :
        /\ \A i \in 1..j : GoodRecord(data, i)
        /\ j = HeaderCount(data) \/ ~GoodRecord(data, j + 1)

\* the buffer the last load of a revised buffer had, seen from before the call
RevisedBuffer == WithRevision(IdentInput(last'.n, last'.arg), last'.rev)

\* C28: when Identifiers.load fails on a buffer that holds a header, the list
\* afterwards has the revision number of that header and exactly the entries
\* of the records that were read whole before the failure; what it held
\* before is gone.
C28_FailedLoadKeepsPartial ==
    [][ (last'.op = "Identifiers.load" /\ last'.err # "none" /\ last'.len >= 12) =>
          LET data == RevisedBuffer
              k == DecodedBefore(data)
          IN  /\ ident'[last'.n].revision_nr = last'.rev
              /\ last'.rev = FromBE(SubSeq(data, 9, 12))
              /\ k < HeaderCount(data)
              /\ EntriesAfter(last'.n) = [i \in 1..k |-> DecodedEntry(data, i)] ]_vars

\* C28 witness: a load failed at the marker of the second record; the list
\* has the header's revision 3 and the one entry read before.
C28_Witness ==
    /\ last.op = "Identifiers.load" /\ last.err = "IdentifierException"
    /\ last.arg = "unknown second flag" /\ last.rev = 3
    /\ ident[last.n].revision_nr = 3
    /\ Len(EntriesAt(last.n)) = 1 /\ EntriesAt(last.n)[1].id = EntryFront.id

(***************************************************************************)
(* The file objects of dump_file and load_file.  Each method binds the     *)
(* result of open() to its local f and never closes it: the handle is      *)
(* released when the runtime collects the file object.  A runtime that     *)
(* counts references does so when the method returns; a runtime with a     *)
(* tracing collector does so at some later time.  When load raises, the    *)
(* traceback refers to the frame of load_file and so to f, on any runtime. *)
(***************************************************************************)
Collectors == {"reference counting", "tracing"}

\* the handles still open when the i-th file of the call is opened
HeldAt(order, i, collector) ==
    IF collector = "reference counting" THEN {} ELSE {order[j] : j \in 1..(i - 1)}

\* the handles still open when the call ends, having opened n files, the last
\* of which was being decoded when the exception (if any) was raised
HeldAtExit(order, n, raised, collector) ==
    IF collector = "reference counting"
    THEN (IF raised THEN {order[n]} ELSE {})
    ELSE {order[j] : j \in 1..n}

\* TargetList.dump_path as DumpPath, with the handles of its dump_file calls
DumpPathOn(k, collector) ==
    /\ verFile' = IF "ver" \in Written(k) THEN File(VersionDump(version)) ELSE verFile
    /\ addrFiles' =
         [f \in Gens \X Suffixes |->
            IF f[1] # DumpGeneration THEN addrFiles[f]
            ELSE IF f[2] \in Written(k) THEN File(DumpOf(f[2])) ELSE addrFiles[f]]
    /\ last' = Call("dump_path", IF k = 4 THEN "none" ELSE "IOError", collector, k) @@
                 [held |-> [i \in 1..k |-> HeldAt(DumpOrder, i, collector)],
                  open |-> HeldAtExit(DumpOrder, k, FALSE, collector)]
    /\ UNCHANGED <<adapterVars, buf, version, group, groupDefault, ident, identDefault, dstRef, sndRef>>


\* the files load_path opens one after the other until one is missing or
\* its load raises: the number opened and whether the last load raised
TLLoadHandles(ver, g, gd, id, idd, dref, sref, vf, af) ==
    IF ~vf.exists THEN [n |-> 0, raised |-> FALSE]
    ELSE LET v == VersionLoad(ver, vf.data)
             n == LoadGeneration(ver, v.gen)
         IN  IF v.err # "none" THEN [n |-> 1, raised |-> TRUE]
             ELSE IF ~af[<<n, "grp">>].exists THEN [n |-> 1, raised |-> FALSE]
             ELSE LET a == GroupLoad(g, gd, af[<<n, "grp">>].data)
                  IN  IF a.err # "none" THEN [n |-> 2, raised |-> TRUE]
                      ELSE IF ~af[<<n, "dst">>].exists THEN [n |-> 2, raised |-> FALSE]
                      ELSE LET d == IdentLoad(id[dref], idd, af[<<n, "dst">>].data)
                               id1 == [id EXCEPT ![dref] = d.io]
                           IN  IF d.err # "none" THEN [n |-> 3, raised |-> TRUE]
                               ELSE IF ~af[<<n, "snd">>].exists
                                    THEN [n |-> 3, raised |-> FALSE]
                               ELSE LET c == IdentLoad(id1[sref], d.dflt,
                                                       af[<<n, "snd">>].data)
                                    IN  [n |-> 4, raised |-> c.err # "none"]

\* TargetList.load_path as LoadPath, with the handles of its load_file calls
LoadPathOn(collector) ==
    /\ LET r == TLLoadPath(version, group, groupDefault, ident, identDefault,
                           dstRef, sndRef, verFile, addrFiles)
           h == TLLoadHandles(version, group, groupDefault, ident, identDefault,
                              dstRef, sndRef, verFile, addrFiles)
       IN  /\ version' = r.version
           /\ group' = r.group
           /\ groupDefault' = r.groupDefault
           /\ ident' = r.ident
           /\ identDefault' = r.identDefault
           /\ last' = Call("load_path", r.err, collector, version) @@
                        [held |-> [i \in 1..h.n |-> HeldAt(DumpOrder, i, collector)],
                         open |-> HeldAtExit(DumpOrder, h.n, h.raised, collector)]
    /\ UNCHANGED <<adapterVars, buf, dstRef, sndRef, verFile, addrFiles>>

NextHandles ==
    \/ VersionIncrease
    \/ \E cfg \in Configs : LoadConfig(cfg)
    \/ \E k \in InterruptionPoints, c \in Collectors : DumpPathOn(k, c)
    \/ \E c \in Collectors : LoadPathOn(c)

SpecHandles == Init /\ [][NextHandles]_vars

\* C21 as claimed: in every dump_path and load_path no handle of the call is
\* open when the next file is opened, and none is open when the call ends,
\* whether it returns or raises (a failing decode inside load included).
C21_HandlesReleased ==
    last.op \in {"dump_path", "load_path"} =>
        /\ \A i \in 1..Len(last.held) : last.held[i] = {}
        /\ last.open = {}

(***************************************************************************)
(* aficio1075.security: passwords encoded and decoded again.               *)
(***************************************************************************)
InitPassword == InitTargetList /\ \E p \in Passwords : InitAdapters(p)

\* text = encode_password(passwd)
EncodePassword ==
    /\ pw.stage = "given"
    /\ LET e == EncodePasswordOf(pw.passwd)
       IN  /\ pw' = [pw EXCEPT !.stage = IF e.err = "none" THEN "encoded" ELSE e.err,
                               !.mangled = e.mangled, !.text = e.text]
           /\ last' = Call("encode_password", e.err, "", Len(pw.passwd))
    /\ UNCHANGED <<listVars, di, user, session>>

\* back = decode_password(text)
DecodePassword ==
    /\ pw.stage = "encoded"
    /\ pw' = [pw EXCEPT !.stage = "decoded", !.back = DecodePasswordOf(pw.text)]
    /\ last' = Call("decode_password", "none", "", Len(pw.text))
    /\ UNCHANGED <<listVars, di, user, session>>

NextPassword == EncodePassword \/ DecodePassword

SpecPassword == InitPassword /\ [][NextPassword]_vars

\* bit i (0 the lowest) of a character code
Bit(val, i) == (val \div (2 ^ i)) % 2

\* b is a rotated right by 2 bits, both of 8 bits
RotatedRight(a, b) ==
    /\ a \in 0..255 /\ b \in 0..255
    /\ \A i \in 0..7 : Bit(b, i) = Bit(a, (i + 2) % 8)

\* C30: encode_password raises PasswordError exactly for passwords of fewer
\* than 3 or more than 8 characters; otherwise each character of the text
\* under the base64 is the password's character rotated right by 2 bits,
\* decode_password rotates each back left by 2 bits, all within 0..255, and
\* the result is the password.
C30_PasswordRoundTrip ==
    /\ pw.stage = "PasswordError" => (Len(pw.passwd) < 3 \/ Len(pw.passwd) > 8)
    /\ pw.stage \in {"encoded", "decoded"} =>
         /\ Len(pw.passwd) \in 3..8
         /\ Len(pw.mangled) = Len(pw.passwd)
         /\ \A i \in 1..Len(pw.passwd) : RotatedRight(pw.passwd[i], pw.mangled[i])
    /\ pw.stage = "decoded" =>
         /\ pw.back = pw.passwd
         /\ \A i \in 1..Len(pw.back) : RotatedRight(pw.back[i], pw.mangled[i])

\* C30 witness: a password of 8 characters that starts with code 255 was
\* encoded and decoded; its text has 12 characters, the last a padding.
C30_Witness ==
    /\ pw.stage = "decoded" /\ Len(pw.passwd) = 8 /\ pw.passwd[1] = 255
    /\ Len(pw.text) = 12 /\ pw.text[12] = B64Pad /\ pw.text[11] # B64Pad

(***************************************************************************)
(* aficio1075.delivery_input: calls on a DeliveryInput object.  di.granted *)
(* is the ticket of the last authenticate the printer answered with        *)
(* DIRC_OK (NoTicket if there was none).                                   *)
(***************************************************************************)
\* the passwords authenticate is called with: one of MIN_PW_LEN characters,
\* one that is too short and one that is too long
AuthPasswords == {SessionPassword, Ramp(MIN_PW_LEN - 1, 97), Ramp(MAX_PW_LEN + 1, 97)}

\* the answers of the printer to authenticate
AuthReplies ==
    [returnValue : {"DIRC_OK", "DIRC_NG", ""}, ticket : {"ticket A", "ticket B", ""}]

\* the answers of the printer to the other requests
ServiceReplies == [returnValue : {"DIRC_OK", "DIRC_NG", ""}]

\* the answers of the printer to getDeliveryService: no delivery service, one
\* with a host name, one without
AddressReplies ==
    [returnValue : {"DIRC_OK", "DIRC_NG", ""}, address : {"0.0.0.0", "10.0.0.1", "10.0.0.9"}]

\* the hosts: none, one that resolves and one that does not
Hosts == {"None", "ds.example", "unknown.example"}

\* di = DeliveryInput(host = .., port = ..)
DINew ==
    /\ di' = [obj |-> DeliveryInputNew, granted |-> NoTicket]
    /\ last' = Call("DeliveryInput", "none", "", 0) @@ [sent |-> <<>>]
    /\ UNCHANGED <<listVars, pw, user, session>>

\* di.authenticate(passwd)
DIAuthenticate(passwd, reply) ==
    /\ LET a == Authenticate(di.obj, passwd, reply)
       IN  /\ di' = [obj |-> a.d,
                     granted |-> IF a.sent # <<>> /\ reply.returnValue = "DIRC_OK"
                                 THEN reply.ticket ELSE di.granted]
           /\ last' = Call("authenticate", a.err, reply.returnValue, Len(passwd)) @@
                        [sent |-> a.sent]
    /\ UNCHANGED <<listVars, pw, user, session>>

\* di.set_delivery_service(host)
DISetDeliveryService(host, reply) ==
    /\ LET a == WithTicketAndHost(di.obj, "setDeliveryService", host, reply)
       IN  last' = Call("set_delivery_service", a.err, host, 0) @@ [sent |-> a.sent]
    /\ UNCHANGED <<listVars, pw, di, user, session>>

\* di.get_delivery_service()
DIGetDeliveryService(reply) ==
    /\ LET a == GetDeliveryService(di.obj, reply)
       IN  last' = Call("get_delivery_service", a.err, reply.address, 0) @@
                     [sent |-> a.sent, result |-> a.result]
    /\ UNCHANGED <<listVars, pw, di, user, session>>

\* di.synchronize(host, generation_nr)
DISynchronize(host, nr, reply) ==
    /\ LET a == WithTicketAndHost(di.obj, "synchronize", host, reply)
       IN  last' = Call("synchronize", a.err, host, nr) @@ [sent |-> a.sent]
    /\ UNCHANGED <<listVars, pw, di, user, session>>

NextDelivery ==
    \/ DINew
    \/ \E passwd \in AuthPasswords, reply \in AuthReplies : DIAuthenticate(passwd, reply)
    \/ \E host \in Hosts, reply \in ServiceReplies : DISetDeliveryService(host, reply)
    \/ \E reply \in AddressReplies : DIGetDeliveryService(reply)
    \/ \E host \in Hosts, nr \in Gens, reply \in ServiceReplies :
          DISynchronize(host, nr, reply)

SpecDelivery == Init /\ [][NextDelivery]_vars

\* the calls that need a ticket
TicketCalls == {"set_delivery_service", "get_delivery_service", "synchronize"}

\* C29: as long as no authenticate of the session was answered with DIRC_OK,
\* set_delivery_service, get_delivery_service and synchronize raise
\* DeliveryInputException and send no request; the stored ticket is always
\* that of the last authenticate answered with DIRC_OK, so an authenticate
\* that fails leaves it as it was (absent or that ticket).
C29_TicketRequired ==
    [][ /\ (last'.op \in TicketCalls /\ di.granted = NoTicket) =>
              (last'.err = "DeliveryInputException" /\ last'.sent = <<>>)
        /\ (last'.op \in TicketCalls /\ last'.sent = <<>> /\ last'.arg # "unknown.example")
              => di.granted = NoTicket
        /\ di'.obj.auth_cookie = di'.granted
        /\ (last'.op = "authenticate" /\ last'.err # "none") =>
              di'.obj.auth_cookie = di.obj.auth_cookie ]_vars

\* C29 witness: after an authenticate answered with DIRC_OK a second one
\* failed and the ticket of the first is still stored.
C29_Witness ==
    /\ last.op = "authenticate" /\ last.err = "DeliveryInputException"
    /\ last.sent = <<"authenticate">>
    /\ di.obj.auth_cookie = "ticket B"

(***************************************************************************)
(* aficio1075.accounts: calls on a User, its UserStatistics and a          *)
(* UserMaintSession.  add_user and set_user_info run the loop of           *)
(* _perform_checked_operation: a call begins (the request is built), then  *)
(* every step is one turn of the loop, the printer answering the request.  *)
(* The caller waits for the call to end before it does anything else.      *)
(***************************************************************************)
\* the counters the printer reports for a user
PrinterCounters == [c \in CounterNames |-> IF c = "copy_a4" THEN 1 ELSE 0]

\* user = User(user_code, name, stats = UserStatistics() or None)
UserConstruct(code, withStats) ==
    /\ session.pc = "idle"
    /\ user' = UserNew(code, IF withStats THEN StatsNew(NoStats.counters) ELSE NoStats)
    /\ last' = Call("User", "none", IF withStats THEN "stats" ELSE "", code)
    /\ UNCHANGED <<listVars, pw, di, session>>

\* user = User.from_xml(user_node), the node with or without statisticsInfo
UserFromXml(code, withStats) ==
    /\ session.pc = "idle"
    /\ user' = UserNew(code, IF withStats THEN StatsFromXml(PrinterCounters) ELSE NoStats)
    /\ last' = Call("User.from_xml", "none", IF withStats THEN "stats" ELSE "", code)
    /\ UNCHANGED <<listVars, pw, di, session>>

\* user.user_code = code
UserSetCode(code) ==
    /\ session.pc = "idle"
    /\ user' = SetUserCode(user, code)
    /\ last' = Call("user_code", "none", "", code) @@ [prev |-> user.user_code]
    /\ UNCHANGED <<listVars, pw, di, session>>

\* user.stats.<counter> = val
StatsAssign(c, val) ==
    /\ session.pc = "idle"
    /\ user.stats.present
    /\ user' = [user EXCEPT !.stats = SetCounter(@, c, val)]
    /\ last' = Call("counter", "none", c, val)
    /\ UNCHANGED <<listVars, pw, di, session>>

\* user.stats.set_zero()
StatsSetZero ==
    /\ session.pc = "idle"
    /\ user.stats.present
    /\ user' = [user EXCEPT !.stats = SetZero(@)]
    /\ last' = Call("set_zero", "none", "", 0)
    /\ UNCHANGED <<listVars, pw, di, session>>

\* user.notify_flushed()
UserNotifyFlushed ==
    /\ session.pc = "idle"
    /\ user' = NotifyFlushed(user)
    /\ last' = Call("notify_flushed", "none", "", 0)
    /\ UNCHANGED <<listVars, pw, di, session>>

\* the passwords of the sessions: one of MIN_PW_LEN characters, one too short
SessionPasswords == {SessionPassword, Ramp(MIN_PW_LEN - 1, 97)}

\* session = UserMaintSession(passwd, host, retry_busy = ..)
SessionConstruct(passwd, retry_busy) ==
    /\ session.pc = "idle"
    /\ session' = SessionNew(passwd, retry_busy)
    /\ last' = Call("UserMaintSession", "none", "", Len(passwd))
    /\ UNCHANGED <<listVars, pw, di, user>>

\* session.add_user(user) up to the loop: the target is user.user_code
BeginAddUser ==
    /\ session.pc = "idle"
    /\ session' = [session EXCEPT !.pc = "calling", !.op = "add_user",
                                  !.target = user.user_code, !.body = UserToXml(user),
                                  !.sent = 0]
    /\ last' = Call("begin", "none", "add_user", user.user_code)
    /\ UNCHANGED <<listVars, pw, di, user>>

\* session.set_user_info(user) up to the loop: the target is user.orig_user_code
BeginSetUserInfo ==
    /\ session.pc = "idle"
    /\ session' = [session EXCEPT !.pc = "calling", !.op = "set_user_info",
                                  !.target = OrigUserCode(user), !.body = UserToXml(user),
                                  !.sent = 0]
    /\ last' = Call("begin", "none", "set_user_info", OrigUserCode(user))
    /\ UNCHANGED <<listVars, pw, di, user>>

\* an XML element with a name, the text of its isSucceeded and errorCode
Node(name, isSucceeded, errorCode) ==
    [name |-> name, isSucceeded |-> isSucceeded, errorCode |-> errorCode]

\* the answers of the printer to a request whose result element is rn:
\* success, busy, another error, a failure without errorCode, a busy server
\* error, an empty operationResult, and a document that is none
Answers(rn) ==
    { [tag |-> "operationResult", children |-> {Node(rn, "true", "None")}],
      [tag |-> "operationResult", children |-> {Node(rn, "false", BUSY_CODE)}],
      [tag |-> "operationResult", children |-> {Node(rn, "false", "invalidUserCode")}],
      [tag |-> "operationResult", children |-> {Node(rn, "false", "None")}],
      [tag |-> "operationResult", children |-> {Node("serverError", "None", BUSY_CODE)}],
      [tag |-> "operationResult", children |-> {}],
      [tag |-> "html", children |-> {}] }

\* no answer: the request was not sent
NoAnswer == [tag |-> "", children |-> {}]

\* One turn of the loop of _perform_checked_operation inside add_user or
\* set_user_info, and the rest of the method when the loop ends:
\* _perform_operation encodes the password (PasswordError ends the call),
\* sends the request and gets the answer; the loop ends unless retry_busy
\* and the error code is BUSY_CODE; then UserMaintError is raised for an
\* error code that is not None, and else the user is notified.
Iterate(answer) ==
    /\ session.pc = "calling"
    /\ IF EncodePasswordOf(session.passwd).err # "none"
       THEN /\ session' = SessionNew(session.passwd, session.retry_busy)
            /\ last' = Call(session.op, "PasswordError", "None", session.sent) @@
                         [answer |-> NoAnswer]
            /\ user' = user
       ELSE LET error_code == GetOperationResult(answer, ResultName(session.op))
                sent == IF session.sent < MaxSent THEN session.sent + 1 ELSE MaxSent
            IN  IF Returns(session.retry_busy, error_code)
                THEN /\ session' = SessionNew(session.passwd, session.retry_busy)
                     /\ last' = Call(session.op,
                                     IF error_code # "None" THEN "UserMaintError" ELSE "none",
                                     error_code, sent) @@ [answer |-> answer]
                     /\ user' = IF error_code # "None" THEN user ELSE NotifyFlushed(user)
                ELSE /\ session' = [session EXCEPT !.sent = sent]
                     /\ last' = Call("retry", "none", error_code, sent) @@ [answer |-> answer]
                     /\ user' = user
    /\ UNCHANGED <<listVars, pw, di>>

\* the counters and the values the caller assigns
AssignedCounters == {"copy_a4"}
AssignedValues == {1}

NextAccounts ==
    \/ \E code \in UserCodes, withStats \in BOOLEAN : UserConstruct(code, withStats)
    \/ \E code \in UserCodes, withStats \in BOOLEAN : UserFromXml(code, withStats)
    \/ \E code \in UserCodes : UserSetCode(code)
    \/ \E c \in AssignedCounters, val \in AssignedValues : StatsAssign(c, val)
    \/ StatsSetZero
    \/ UserNotifyFlushed
    \/ \E passwd \in SessionPasswords, retry_busy \in BOOLEAN :
          SessionConstruct(passwd, retry_busy)
    \/ BeginAddUser
    \/ BeginSetUserInfo
    \/ \E answer \in Answers(ResultName(session.op)) : Iterate(answer)

SpecAccounts == Init /\ [][NextAccounts]_vars

\* a turn of the loop in which the printer gives an answer that is not busy
NonBusyIterate ==
    \E answer \in Answers(ResultName(session.op)) :
        /\ GetOperationResult(answer, ResultName(session.op)) # BUSY_CODE
        /\ Iterate(answer)

\* The printer does not answer busy forever: a running call gets an answer
\* that is not busy at some time.
SpecAccountsFair == Init /\ [][NextAccounts]_vars /\ WF_vars(NonBusyIterate)

\* add_user or set_user_info ends in this step
Returned == session.pc = "calling" /\ session'.pc = "idle"

\* the user was flushed: no change of the user code is pending and the
\* statistics, if any, are not modified
Flushed(u) == ~u.has_orig /\ ~(u.stats.present /\ u.stats.modified)

\* C22: orig_user_code equals user_code after construction; an assignment to
\* user_code leaves orig_user_code as it was (so, after any number of them,
\* at the user code held before the first one since the last flush);
\* set_user_info addresses the user by it; after notify_flushed, called by
\* the caller or at the end of a successful add_user or set_user_info, it
\* equals the unchanged user_code again.
C22_OrigUserCode ==
    [][ /\ last'.op \in {"User", "User.from_xml"} =>
              OrigUserCode(user') = user'.user_code /\ user'.user_code = last'.n
        /\ last'.op = "user_code" =>
              /\ user'.user_code = last'.n
              /\ OrigUserCode(user') = OrigUserCode(user)
              /\ (Flushed(user) \/ last.op \in {"User", "User.from_xml", "notify_flushed"})
                    => OrigUserCode(user') = user.user_code
        /\ (last'.op = "begin" /\ last'.arg = "set_user_info") =>
              session'.target = OrigUserCode(user) /\ session'.body.userCode = user.user_code
        /\ (last'.op = "notify_flushed" \/ (Returned /\ last'.err = "none")) =>
              /\ user'.user_code = user.user_code
              /\ OrigUserCode(user') = user'.user_code ]_vars

\* C22 witness: the user code was 7 when the user was last flushed, then it
\* was set to 8 and now to 0; orig_user_code is still 7.
C22_Witness ==
    /\ last.op = "user_code" /\ last.prev = 8 /\ user.user_code = 0
    /\ OrigUserCode(user) = 7

\* the printer reported success: isSucceeded of the result element is true
ReportsSuccess(answer, op) ==
    /\ answer.tag = "operationResult"
    /\ \E c \in answer.children : c.name = ResultName(op) /\ c.isSucceeded = "true"

\* C23 as claimed: modified is True after the construction of a
\* UserStatistics, after the assignment of a counter and after set_zero, and
\* False after from_xml; add_user and set_user_info change the user (modified
\* becomes False, orig_user_code the user code) only when the printer
\* reported success and leave it as it was when they raise; the request
\* carries the statistics exactly when they exist and modified is True.
C23_ModifiedTracking ==
    [][ /\ (last'.op = "User" /\ last'.arg = "stats") => user'.stats.modified
        /\ last'.op \in {"counter", "set_zero"} => user'.stats.modified
        /\ (last'.op = "User.from_xml" /\ last'.arg = "stats") => ~user'.stats.modified
        /\ last'.op = "begin" =>
              session'.body.hasStats = (user.stats.present /\ user.stats.modified)
        /\ Returned =>
              /\ ReportsSuccess(last'.answer, session.op) =>
                    Flushed(user') /\ user'.user_code = user.user_code
              /\ ~ReportsSuccess(last'.answer, session.op) => user' = user
              /\ last'.err # "none" => user' = user ]_vars

\* the session's password can be encoded
PasswordValid == EncodePasswordOf(session.passwd).err = "none"

\* the error code of the answer of this step
AnswerCode == GetOperationResult(last'.answer, ResultName(session.op))

\* C27 as claimed: _perform_checked_operation sends exactly one request when
\* retry_busy is False; when it is True, the same request is sent again for
\* as long as the answer's error code is 'systemBusy' and the first other
\* result is returned, never 'systemBusy'; the call ends if and only if the
\* printer at some time gives an answer that is not busy.
C27_RetryWhileBusy ==
    /\ [][ /\ (Returned /\ ~session.retry_busy) => last'.n = 1
           /\ (Returned /\ session.retry_busy) =>
                 (last'.arg = AnswerCode /\ last'.arg # BUSY_CODE)
           /\ (session.pc = "calling" /\ session'.pc = "calling") =>
                 /\ session.retry_busy /\ AnswerCode = BUSY_CODE
                 /\ session'.target = session.target /\ session'.body = session.body
                 /\ session'.sent = (IF session.sent < MaxSent THEN session.sent + 1
                                     ELSE MaxSent) ]_vars
    /\ (session.pc = "calling") ~> (session.pc = "idle")

\* C27 as amended: the same for a session whose password has 3 to 8
\* characters; with any other password the call ends with PasswordError
\* before a request is sent.
C27_RetryWhileBusyValidPassword ==
    /\ [][ /\ (Returned /\ ~PasswordValid) =>
                 (last'.err = "PasswordError" /\ last'.n = 0 /\ user' = user)
           /\ (Returned /\ PasswordValid /\ ~session.retry_busy) => last'.n = 1
           /\ (Returned /\ PasswordValid /\ session.retry_busy) =>
                 (last'.arg = AnswerCode /\ last'.arg # BUSY_CODE)
           /\ (session.pc = "calling" /\ session'.pc = "calling") =>
                 /\ PasswordValid /\ session.retry_busy /\ AnswerCode = BUSY_CODE
                 /\ session'.target = session.target /\ session'.body = session.body
                 /\ session'.sent = (IF session.sent < MaxSent THEN session.sent + 1
                                     ELSE MaxSent) ]_vars
    /\ (session.pc = "calling") ~> (session.pc = "idle")

\* C27 witness: a call with retry_busy ended without error after the printer
\* had answered busy to the first request at least.
C27_Witness ==
    /\ last.op = "add_user" /\ last.err = "none" /\ last.n = 2
    /\ session.retry_busy /\ session.pc = "idle"

====
